---- MODULE Spec2Model ----
(***************************************************************************)
(* A model of the S-expression library (sxprlib.py, ratcomplex.py).        *)
(*                                                                         *)
(* Values are tagged records [t, v, w]:                                    *)
(*   nil            the singleton NIL                                      *)
(*   int   v        a host int                                             *)
(*   frac  v w      a fractions.Fraction v/w (w >= 1, lowest terms)        *)
(*   float v w      a host float; v/w is the quotient it approximates      *)
(*   sym   v        the interned Symbol whose value is the text v          *)
(*   str   v        a String whose value is the text v                     *)
(*   pystr v        the host str v                                         *)
(*   cons  v        a reference to the Cons object cells[v]                *)
(*   arr   v        a reference to the Array object arrays[v]              *)
(*   list  v        a reference to a host list object                      *)
(* Object identity (Python's id()) is the index v of a reference.          *)
(***************************************************************************)
EXTENDS Integers, Sequences, FiniteSets, TLC

VARIABLES
    cells,      \* the Cons objects built so far: Seq([car, cdr])
    arrays,     \* the Array objects built so far: Seq([dim, value])
    pylists,    \* the host list objects built so far: Seq(Seq(host value))
    nops,       \* number of constructor / assignment calls made so far
    flags,      \* the module-level dialect flags sxprlib_enable*
    atoms,      \* the Symbol, Char and Complex objects made so far
    SymbolInstance,     \* Symbol.__SymbolInstance: key -> object
    CharInstance,       \* Char.__CharInstance: key -> object
    ComplexInstance,    \* Complex.__ComplexInstance: key -> object
    objects,    \* the instance __dict__ of objects whose attributes are assigned
                \* or deleted by name: Seq([cls, dict, made])
    nil,        \* the class Nil: its class __dict__ cd and the instance __dict__
                \* of every object Nil.__new__ has made
    reader,     \* a SxprStringReader: its _streamer st and the calls made on it
    file,       \* a file on disk, the file object open() gave for it, and the
                \* sxopen instance over it
    threads,    \* the threads that construct interned atoms, each with its
                \* position inside __new__, and the lock they may share
    iterators,  \* the _ConsIterator objects made so far
    ret         \* what the last library call returned (or raised)

vars == <<cells, arrays, pylists, nops, flags, atoms,
          SymbolInstance, CharInstance, ComplexInstance, objects, nil,
          reader, file, threads, iterators, ret>>

\* the state of the parts of the library that the operations on Cons
\* structures, host lists and interned atoms leave alone
OtherState == <<objects, nil, reader, file, threads, iterators>>
\* that state without the objects, without the class Nil, without the reader,
\* without the file, without the threads
OtherThanObjects == <<nil, reader, file, threads, iterators>>
OtherThanNil == <<objects, reader, file, threads, iterators>>
OtherThanReader == <<objects, nil, file, threads, iterators>>
OtherThanFile == <<objects, nil, reader, threads, iterators>>
OtherThanThreads == <<objects, nil, reader, file, iterators>>

\* the interned objects and the three intern tables
Interned == <<atoms, SymbolInstance, CharInstance, ComplexInstance>>
\* the variables an operation on Cons and Array objects leaves alone
OutsideHeap == <<pylists, Interned, OtherState>>
\* the variables an operation on host lists leaves alone
OutsideHost == <<cells, arrays, Interned, OtherState>>
\* the variables a constructor of an interned atom leaves alone
OutsideInterned == <<cells, arrays, pylists, OtherState>>

(***************************************************************************)
(* Bounds of the model.                                                    *)
(***************************************************************************)
MaxCells == 2
MaxArrays == 1
MaxOps == 3
MaxLists == 2
MaxAtoms == 2
MaxPart == 4

(***************************************************************************)
(* Values.                                                                 *)
(***************************************************************************)
NIL == [t |-> "nil", v |-> 0, w |-> 0]
IntV(n) == [t |-> "int", v |-> n, w |-> 0]
Sym(text) == [t |-> "sym", v |-> text, w |-> 0]
ConsRef(i) == [t |-> "cons", v |-> i, w |-> 0]
ArrRef(i) == [t |-> "arr", v |-> i, w |-> 0]
Frac(n, d) == [t |-> "frac", v |-> n, w |-> d]
StringV(text) == [t |-> "str", v |-> text, w |-> 0]
PyStr(text) == [t |-> "pystr", v |-> text, w |-> 0]
ListRef(i) == [t |-> "list", v |-> i, w |-> 0]

\* type(s) is Cons
consp(s) == s.t = "cons"
\* s is _NIL
null(s) == s = NIL
\* (s is _NIL) or (type(s) is Cons)
listp(s) == null(s) \/ consp(s)
\* type(s) is Symbol
symbolp(s) == s.t = "sym"

\* Symbol("quote"), Symbol("function")
SymQuote == Sym(<<"q", "u", "o", "t", "e">>)
SymFunction == Sym(<<"f", "u", "n", "c", "t", "i", "o", "n">>)

\* the dialect flags as they are when the module is imported
DefaultFlags ==
    [enableLineComment |-> TRUE, enableBlockComment |-> FALSE, enableEscape |-> FALSE,
     enableQuote |-> FALSE, enableFuncRef |-> FALSE, enableBin |-> FALSE,
     enableOct |-> FALSE, enableHex |-> FALSE, enableRadix |-> FALSE,
     enableComplex |-> FALSE, enableArray |-> FALSE, enableFrac |-> FALSE,
     enableChar |-> FALSE, ignoreCase |-> FALSE]

\* no interned atom has been constructed: the three tables are empty
NoAtoms ==
    /\ atoms = <<>>
    /\ SymbolInstance = <<>>
    /\ CharInstance = <<>>
    /\ ComplexInstance = <<>>

\* the heap as one value, so that operators can run on any heap
Heap == [cells |-> cells, arrays |-> arrays]
EmptyHeap == [cells |-> <<>>, arrays |-> <<>>]

CellIds(H) == 1..Len(H.cells)
ArrIds(H) == 1..Len(H.arrays)
car(H, c) == H.cells[c.v].car
cdr(H, c) == H.cells[c.v].cdr

NoRet == [op |-> "none"]

(***************************************************************************)
(* Cons.__len__                                                            *)
(***************************************************************************)
RECURSIVE Cons_len_loop(_, _, _, _, _)
Cons_len_loop(H, c, n, occurence, fuel) ==
    IF fuel = 0 THEN -1
    ELSE IF consp(cdr(H, c)) /\ cdr(H, c).v \notin occurence
         THEN Cons_len_loop(H, cdr(H, c), n + 1, occurence \cup {cdr(H, c).v}, fuel - 1)
         ELSE n

\* a walk that is still going after LoopFuel(H) iterations never ends: -1
LoopFuel(H) == Len(H.cells) + Len(H.arrays) + 2

\* mutant: the occurence set is not seeded with the first cell
Cons_len_mut(H, self) == Cons_len_loop(H, self, 1, {}, LoopFuel(H))

Cons_len(H, self) == Cons_len_loop(H, self, 1, {self.v}, LoopFuel(H))

(***************************************************************************)
(* Text: a str is a sequence of one-character strings.                     *)
(***************************************************************************)
Digit == <<"0", "1", "2", "3", "4", "5", "6", "7", "8", "9">>

RECURSIVE NatStr(_)
NatStr(n) == IF n < 10 THEN <<Digit[n + 1]>>
             ELSE NatStr(n \div 10) \o <<Digit[(n % 10) + 1]>>

\* str(n) of a host int
IntStr(n) == IF n < 0 THEN <<"-">> \o NatStr(-n) ELSE NatStr(n)

\* the ASCII letters, and the ASCII characters with codes 32 to 95
LowerLetters ==
    <<"a", "b", "c", "d", "e", "f", "g", "h", "i", "j", "k", "l", "m",
      "n", "o", "p", "q", "r", "s", "t", "u", "v", "w", "x", "y", "z">>
UpperLetters ==
    <<"A", "B", "C", "D", "E", "F", "G", "H", "I", "J", "K", "L", "M",
      "N", "O", "P", "Q", "R", "S", "T", "U", "V", "W", "X", "Y", "Z">>
Ascii ==
    <<" ", "!", "\"", "#", "$", "%", "&", "'", "(", ")", "*", "+", ",",
      "-", ".", "/", "0", "1", "2", "3", "4", "5", "6", "7", "8", "9",
      ":", ";", "<", "=", ">", "?", "@", "A", "B", "C", "D", "E", "F",
      "G", "H", "I", "J", "K", "L", "M", "N", "O", "P", "Q", "R", "S",
      "T", "U", "V", "W", "X", "Y", "Z", "[", "\\", "]", "^", "_">>

\* the position of ch in seq, 0 if it is not there
IndexIn(seq, ch) ==
    IF \E i \in 1..Len(seq) : seq[i] = ch
    THEN CHOOSE i \in 1..Len(seq) : seq[i] = ch
    ELSE 0

\* str.lower(), str.upper() and str.capitalize() on ASCII text
LowerChar(ch) ==
    IF IndexIn(UpperLetters, ch) # 0 THEN LowerLetters[IndexIn(UpperLetters, ch)] ELSE ch
UpperChar(ch) ==
    IF IndexIn(LowerLetters, ch) # 0 THEN UpperLetters[IndexIn(LowerLetters, ch)] ELSE ch
Lower(text) == [i \in 1..Len(text) |-> LowerChar(text[i])]
Capitalize(text) ==
    [i \in 1..Len(text) |-> IF i = 1 THEN UpperChar(text[i]) ELSE LowerChar(text[i])]

HexDigits == <<"0", "1", "2", "3", "4", "5", "6", "7", "8", "9", "a", "b", "c", "d", "e", "f">>

IsDigit(ch) == \E i \in 1..10 : Digit[i] = ch
AllDigits(s) == \A i \in 1..Len(s) : IsDigit(s[i])
StripSign(s) == IF Len(s) > 0 /\ s[1] \in {"+", "-"} THEN Tail(s) ELSE s

\* _is_integer: [+-]?\d+
is_integer(s) == Len(StripSign(s)) >= 1 /\ AllDigits(StripSign(s))

\* the mantissa of _is_number: \d+(\.\d*)? | \d*\.\d+
IsMantissa(m) ==
    /\ \A i \in 1..Len(m) : IsDigit(m[i]) \/ m[i] = "."
    /\ Cardinality({i \in 1..Len(m) : m[i] = "."}) <= 1
    /\ \E i \in 1..Len(m) : IsDigit(m[i])

\* the exponent of _is_number: [defsDEFS][+-]?\d+
IsExponent(e) ==
    /\ Len(e) >= 2
    /\ e[1] \in {"d", "e", "f", "s", "D", "E", "F", "S"}
    /\ is_integer(Tail(e))

\* _is_number: [+-]?(\d+(\.\d*)?|\d*\.\d+)([defsDEFS][+-]?\d+)?
is_number(s) ==
    LET u == StripSign(s) IN
    \E k \in 1..Len(u) :
        /\ IsMantissa(SubSeq(u, 1, k))
        /\ k = Len(u) \/ IsExponent(SubSeq(u, k + 1, Len(u)))

\* the elements of a sequence
Range(seq) == {seq[i] : i \in 1..Len(seq)}
BinDigits == {"0", "1"}
OctDigits == {"0", "1", "2", "3", "4", "5", "6", "7"}
HexDigitSet == Range(HexDigits) \cup {"A", "B", "C", "D", "E", "F"}
AlnumChars == Range(Digit) \cup Range(LowerLetters) \cup Range(UpperLetters)

\* D+(/D+)? for a set D of digits
DigitsSlashDigits(u, D) ==
    \E k \in 1..Len(u) :
        /\ \A i \in 1..k : u[i] \in D
        /\ \/ k = Len(u)
           \/ /\ k + 2 <= Len(u)
              /\ u[k + 1] = "/"
              /\ \A i \in (k + 2)..Len(u) : u[i] \in D

\* [+-]?#[mM]D+(/D+)? for the marker letters in marks
IsPrefixedNumber(s, marks, D) ==
    LET u == StripSign(s) IN
    /\ Len(u) >= 3
    /\ u[1] = "#"
    /\ u[2] \in marks
    /\ DigitsSlashDigits(SubSeq(u, 3, Len(u)), D)

\* _is_bin, _is_oct, _is_hex
is_bin(s) == IsPrefixedNumber(s, {"b", "B"}, BinDigits)
is_oct(s) == IsPrefixedNumber(s, {"o", "O"}, OctDigits)
is_hex(s) == IsPrefixedNumber(s, {"x", "X"}, HexDigitSet)

\* _is_radix: [+-]?#[1-9][0-9]?[rR][0-9a-zA-Z]+(/[0-9a-zA-Z]+)?
is_radix(s) ==
    LET u == StripSign(s) IN
    \E k \in 3..4 :
        /\ Len(u) > k
        /\ u[1] = "#"
        /\ u[2] \in Range(Digit) \ {"0"}
        /\ \A i \in 3..(k - 1) : IsDigit(u[i])
        /\ u[k] \in {"r", "R"}
        /\ DigitsSlashDigits(SubSeq(u, k + 1, Len(u)), AlnumChars)

\* _is_fraction: [+-]?\d+/\d+
is_fraction(s) ==
    LET u == StripSign(s) IN
    /\ DigitsSlashDigits(u, Range(Digit))
    /\ \E i \in 1..Len(u) : u[i] = "/"

\* _is_arrayprefix: #[0-9]+[aA]
is_arrayprefix(s) ==
    /\ Len(s) >= 3
    /\ s[1] = "#"
    /\ s[Len(s)] \in {"a", "A"}
    /\ AllDigits(SubSeq(s, 2, Len(s) - 1))

\* the str.translate table of Symbol.__str__ (of the characters TLA+ can write)
SymTranslate(ch) ==
    CASE ch = "(" -> <<"\\", "(">>
      [] ch = ")" -> <<"\\", ")">>
      [] ch = " " -> <<"_">>
      [] ch = "|" -> <<"\\", "|">>
      [] ch = "\"" -> <<"\\", "\"">>
      [] ch = "\f" -> <<"\\", "f">>
      [] ch = "\n" -> <<"\\", "n">>
      [] ch = "\r" -> <<"\\", "r">>
      [] ch = "\t" -> <<"\\", "t">>
      [] OTHER -> <<ch>>

RECURSIVE Translate(_)
Translate(s) == IF s = <<>> THEN <<>> ELSE SymTranslate(Head(s)) \o Translate(Tail(s))

\* Symbol.__str__ on the symbol's text
Symbol_str(value, F) ==
    IF value = <<".">> THEN <<"\\", ".">>
    ELSE LET s == Translate(value) IN
         IF \/ is_integer(s)
            \/ F.enableBin /\ is_bin(s)
            \/ F.enableOct /\ is_oct(s)
            \/ F.enableHex /\ is_hex(s)
            \/ F.enableRadix /\ is_radix(s)
            \/ F.enableFrac /\ is_fraction(s)
            \/ is_number(s)
         THEN <<"|">> \o s \o <<"|">>
         ELSE s

(***************************************************************************)
(* Cons.__str__, Array.__str__ and the str of the atoms.  A result is      *)
(* [ok, s]: ok is FALSE when the recursion never returns (the interpreter  *)
(* ends it with RecursionError), which the model detects by running out of *)
(* fuel; no terminating call on a heap of this size nests that deep.       *)
(***************************************************************************)
Diverged == [ok |-> FALSE, s |-> <<>>]
Text(s) == [ok |-> TRUE, s |-> s]
Cat(pre, r, post) == IF r.ok THEN Text(pre \o r.s \o post) ELSE Diverged

StrFuel(H) == (Len(H.cells) + Len(H.arrays) + 2) * (Len(H.cells) + Len(H.arrays) + 2)

RECURSIVE Cons_Sxpr2Str(_, _, _, _, _)
RECURSIVE Cons_Cons2SeqStr(_, _, _, _, _, _, _)

\* Array.__str__: str(self.value) starts a Cons.__str__ with a fresh occurence list
Array_str(H, a, fuel, F) ==
    LET A == H.arrays[a.v]
        body == Cons_Sxpr2Str(H, A.value, {}, fuel, F)
    IN IF A.dim = 1 THEN Cat(<<"#">>, body, <<>>)
       ELSE Cat(<<"#">> \o IntStr(A.dim) \o <<"A">>, body, <<>>)

\* the characters chr(0) .. chr(31)
ControlChars ==
    <<"\\x00", "\\x01", "\\x02", "\\x03", "\\x04", "\\x05", "\\x06", "\\x07",
      "\\x08", "\t", "\n", "\\x0b", "\f", "\r", "\\x0e", "\\x0f",
      "\\x10", "\\x11", "\\x12", "\\x13", "\\x14", "\\x15", "\\x16", "\\x17",
      "\\x18", "\\x19", "\\x1a", "\\x1b", "\\x1c", "\\x1d", "\\x1e", "\\x1f">>
\* "{:02x}".format(n) for n < 256
Hex2(n) == <<HexDigits[(n \div 16) + 1], HexDigits[(n % 16) + 1]>>

\* json.dumps(value, ensure_ascii=False) without the enclosing quotes
JsonEscape(ch) ==
    CASE ch = "\"" -> <<"\\", "\"">>
      [] ch = "\\" -> <<"\\", "\\">>
      [] ch = "\\x08" -> <<"\\", "b">>
      [] IndexIn(ControlChars, ch) # 0 /\ ch \notin {"\\x08", "\f", "\n", "\r", "\t"} ->
             <<"\\", "u", "0", "0">> \o Hex2(IndexIn(ControlChars, ch) - 1)
      [] ch = "\f" -> <<"\\", "f">>
      [] ch = "\n" -> <<"\\", "n">>
      [] ch = "\r" -> <<"\\", "r">>
      [] ch = "\t" -> <<"\\", "t">>
      [] OTHER -> <<ch>>
RECURSIVE JsonBody(_)
JsonBody(value) ==
    IF value = <<>> THEN <<>> ELSE JsonEscape(Head(value)) \o JsonBody(Tail(value))

\* s.replace("\\\\", "\\")
RECURSIVE HalveBackslashes(_)
HalveBackslashes(s) ==
    IF s = <<>> THEN <<>>
    ELSE IF Len(s) >= 2 /\ s[1] = "\\" /\ s[2] = "\\"
    THEN <<"\\">> \o HalveBackslashes(SubSeq(s, 3, Len(s)))
    ELSE <<Head(s)>> \o HalveBackslashes(Tail(s))

\* String.__str__
String_str(value, F) ==
    LET s == <<"\"">> \o JsonBody(value) \o <<"\"">>
    IN IF F.enableEscape THEN s ELSE HalveBackslashes(s)

\* Fraction.__str__
Fraction_str(x) ==
    IF x.w = 1 THEN IntStr(x.v) ELSE IntStr(x.v) \o <<"/">> \o IntStr(x.w)

\* str(x) of a value that is not a Cons
Atom_str(H, ex, fuel, F) ==
    CASE ex.t = "nil" -> Text(<<"(", ")">>)
      [] ex.t = "int" -> Text(IntStr(ex.v))
      [] ex.t = "frac" -> Text(Fraction_str(ex))
      [] ex.t = "str" -> Text(String_str(ex.v, F))
      [] ex.t = "sym" -> Text(Symbol_str(ex.v, F))
      [] ex.t = "arr" -> Array_str(H, ex, fuel, F)

\* Cons.__Sxpr2Str; occurence is the union of the sets in the list the code passes
Cons_Sxpr2Str(H, ex, occurence, fuel, F) ==
    IF fuel = 0 THEN Diverged
    ELSE IF consp(ex)
    THEN IF /\ F.enableQuote /\ car(H, ex) = SymQuote /\ consp(cdr(H, ex))
            /\ null(cdr(H, cdr(H, ex)))
         THEN Cat(<<"'">>, Cons_Sxpr2Str(H, car(H, cdr(H, ex)), occurence, fuel - 1, F), <<>>)
         ELSE IF /\ F.enableFuncRef /\ car(H, ex) = SymFunction /\ consp(cdr(H, ex))
                 /\ null(cdr(H, cdr(H, ex))) /\ symbolp(car(H, cdr(H, ex)))
         THEN Cat(<<"#", "'">>, Cons_Sxpr2Str(H, car(H, cdr(H, ex)), occurence, fuel - 1, F), <<>>)
         ELSE Cat(<<"(">>, Cons_Cons2SeqStr(H, ex, occurence, {}, <<>>, fuel - 1, F), <<")">>)
    ELSE Atom_str(H, ex, fuel - 1, F)

\* mutant: a revisit is looked up in the inherited sets only, not in the local one
RECURSIVE Cons_Cons2SeqStr_mut(_, _, _, _, _, _, _)
Cons_Cons2SeqStr_mut(H, c, occurence, localoccurence, s, fuel, F) ==
    IF fuel = 0 THEN Diverged
    ELSE IF ~consp(c)
    THEN Cat(s \o <<".", " ">>,
             Cons_Sxpr2Str(H, c, occurence \cup localoccurence, fuel - 1, F), <<>>)
    ELSE IF c.v \in occurence
    THEN Text(s \o <<".", ".", ".">>)
    ELSE LET r == Cons_Sxpr2Str(H, car(H, c), occurence \cup localoccurence \cup {c.v},
                                fuel - 1, F)
         IN IF ~r.ok THEN Diverged
            ELSE IF cdr(H, c).t = "nil" THEN Text(s \o r.s)
            ELSE Cons_Cons2SeqStr_mut(H, cdr(H, c), occurence, localoccurence \cup {c.v},
                                      s \o r.s \o <<" ">>, fuel - 1, F)

\* a variant whose local set also keeps the Cons it printed as a car
RECURSIVE Cons_Cons2SeqStr_kept(_, _, _, _, _, _, _)
Cons_Cons2SeqStr_kept(H, c, occurence, localoccurence, s, fuel, F) ==
    IF fuel = 0 THEN Diverged
    ELSE IF ~consp(c)
    THEN Cat(s \o <<".", " ">>,
             Cons_Sxpr2Str(H, c, occurence \cup localoccurence, fuel - 1, F), <<>>)
    ELSE IF c.v \in occurence \cup localoccurence
    THEN Text(s \o <<".", ".", ".">>)
    ELSE LET r == Cons_Sxpr2Str(H, car(H, c), occurence \cup localoccurence \cup {c.v},
                                fuel - 1, F)
         IN IF ~r.ok THEN Diverged
            ELSE IF cdr(H, c).t = "nil" THEN Text(s \o r.s)
            ELSE Cons_Cons2SeqStr_kept(H, cdr(H, c), occurence,
                                       localoccurence \cup {c.v}
                                           \cup (IF consp(car(H, c)) THEN {car(H, c).v} ELSE {}),
                                       s \o r.s \o <<" ">>, fuel - 1, F)

\* Cons.__Cons2SeqStr: one iteration of its while loop per call; s is the text so far
Cons_Cons2SeqStr(H, c, occurence, localoccurence, s, fuel, F) ==
    IF fuel = 0 THEN Diverged
    ELSE IF ~consp(c)
    THEN Cat(s \o <<".", " ">>,
             Cons_Sxpr2Str(H, c, occurence \cup localoccurence, fuel - 1, F), <<>>)
    ELSE IF c.v \in occurence \cup localoccurence
    THEN Text(s \o <<".", ".", ".">>)
    ELSE LET r == Cons_Sxpr2Str(H, car(H, c), occurence \cup localoccurence \cup {c.v},
                                fuel - 1, F)
         IN IF ~r.ok THEN Diverged
            ELSE IF cdr(H, c).t = "nil" THEN Text(s \o r.s)
            ELSE Cons_Cons2SeqStr(H, cdr(H, c), occurence, localoccurence \cup {c.v},
                                  s \o r.s \o <<" ">>, fuel - 1, F)

\* Cons.__str__ / str(x)
Cons_str(H, self, F) == Cons_Sxpr2Str(H, self, {}, StrFuel(H), F)

(***************************************************************************)
(* sx2py.  The conversion state S is [lists, occurence, listdic, err]:     *)
(* lists are the host list objects created so far (a host list is the      *)
(* sequence of its elements), occurence and listdic are the two locals of  *)
(* sx2py, err is the message of the exception raised, "" if none.          *)
(***************************************************************************)
Unresolvable == "sx2py(): unresolvable recursion found."
RecursionError == "RecursionError"

Sx2pyStart(lists) == [lists |-> lists, occurence |-> {}, listdic |-> <<>>, err |-> ""]
Raise(S, msg) == [st |-> [S EXCEPT !.err = msg], val |-> NIL]
Return(S, x) == [st |-> S, val |-> x]
AppendTo(S, l, x) == [S EXCEPT !.lists[l] = Append(@, x)]

RECURSIVE sx2py_rec(_, _, _, _, _)
RECURSIVE sx2py_loop(_, _, _, _, _, _)

\* __sx2py(s, native, occurence, listdic)
sx2py_rec(H, s, native, S, fuel) ==
    IF fuel = 0 THEN Raise(S, RecursionError)
    ELSE IF null(s)
    THEN Return([S EXCEPT !.lists = Append(@, <<>>)], ListRef(Len(S.lists) + 1))
    ELSE IF native /\ s.t \in {"str", "sym"} THEN Return(S, PyStr(s.v))
    ELSE IF consp(s)
    THEN IF s.v \in DOMAIN S.listdic
         THEN Return(S, ListRef(S.listdic[s.v]))
         ELSE LET l == Len(S.lists) + 1
                  S1 == [S EXCEPT !.lists = Append(@, <<>>),
                                  !.listdic = (s.v :> l) @@ @]
              IN sx2py_loop(H, s, native, l, S1, fuel - 1)
    ELSE IF s.t = "frac"
    THEN IF s.w = 1 THEN Return(S, IntV(s.v)) ELSE Return(S, s)
    ELSE IF s.t = "arr" THEN sx2py_rec(H, H.arrays[s.v].value, native, S, fuel - 1)
    ELSE Return(S, s)

\* the while loop of __sx2py and the append of a dotted tail; l is the list being filled
sx2py_loop(H, s, native, l, S, fuel) ==
    IF fuel = 0 THEN Raise(S, RecursionError)
    ELSE IF consp(s)
    THEN IF s.v \in S.occurence
         THEN Raise(S, Unresolvable)
         ELSE LET r == sx2py_rec(H, car(H, s), native,
                                 [S EXCEPT !.occurence = @ \cup {s.v}], fuel - 1)
              IN IF r.st.err # "" THEN r
                 ELSE sx2py_loop(H, cdr(H, s), native, l, AppendTo(r.st, l, r.val), fuel - 1)
    ELSE IF ~null(s)
    THEN LET r == sx2py_rec(H, s, native, S, fuel - 1)
         IN IF r.st.err # "" THEN r ELSE Return(AppendTo(r.st, l, r.val), ListRef(l))
    ELSE Return(S, ListRef(l))

\* sx2py(s, native): the host lists that exist before the call are kept
sx2py(H, lists, s, native) == sx2py_rec(H, s, native, Sx2pyStart(lists), StrFuel(H))

(***************************************************************************)
(* Symbol.__new__: the canonical text under which a Symbol is interned.    *)
(***************************************************************************)
EmptySymbol == "Symbol(): the argument must be a non-empty string!"

\* the text v that Symbol.__new__ looks up and stores
Symbol_value(value, F) == IF F.ignoreCase THEN Lower(value) ELSE value

(***************************************************************************)
(* py2sx.  L are the host lists; the conversion state S is                 *)
(* [cells, occurence, err]: the Cons objects that exist, the local dict    *)
(* of py2sx (host list id -> Cons) and the exception raised, "" if none.   *)
(***************************************************************************)
Py2sxStart(cs) == [cells |-> cs, occurence |-> <<>>, err |-> ""]

RECURSIVE py2sx_rec(_, _, _, _, _, _)
RECURSIVE py2sx_loop(_, _, _, _, _, _, _)

\* mutant: the loop links every new Cons to the first cell (s is not advanced)
RECURSIVE py2sx_loop_mut(_, _, _, _, _, _, _)
py2sx_loop_mut(L, rest, s, strassym, S, fuel, F) ==
    IF fuel = 0 THEN [S EXCEPT !.err = RecursionError]
    ELSE IF rest = <<>> THEN [S EXCEPT !.cells[s].cdr = NIL]
    ELSE LET r == py2sx_rec(L, Head(rest), strassym, S, fuel - 1, F)
             m == Len(r.st.cells) + 1
         IN IF r.st.err # "" THEN r.st
            ELSE py2sx_loop_mut(L, Tail(rest), s, strassym,
                                [r.st EXCEPT !.cells = [Append(@, [car |-> r.val, cdr |-> NIL])
                                                           EXCEPT ![s].cdr = ConsRef(m)]],
                                fuel - 1, F)

\* for i in l[1:]: s.cdr = Cons(__py2sx(i)); s = s.cdr   and then   s.cdr = _NIL
py2sx_loop(L, rest, s, strassym, S, fuel, F) ==
    IF fuel = 0 THEN [S EXCEPT !.err = RecursionError]
    ELSE IF rest = <<>> THEN [S EXCEPT !.cells[s].cdr = NIL]
    ELSE LET r == py2sx_rec(L, Head(rest), strassym, S, fuel - 1, F)
             m == Len(r.st.cells) + 1
         IN IF r.st.err # "" THEN r.st
            ELSE py2sx_loop(L, Tail(rest), m, strassym,
                            [r.st EXCEPT !.cells = [Append(@, [car |-> r.val, cdr |-> NIL])
                                                       EXCEPT ![s].cdr = ConsRef(m)]],
                            fuel - 1, F)

\* __py2sx(l, strassym, occurence)
py2sx_rec(L, l, strassym, S, fuel, F) ==
    IF fuel = 0 THEN Raise(S, RecursionError)
    ELSE IF l.t = "list"
    THEN IF l.v \in DOMAIN S.occurence
         THEN Return(S, S.occurence[l.v])
         ELSE IF L[l.v] # <<>>
         THEN LET r == py2sx_rec(L, Head(L[l.v]), strassym, S, fuel - 1, F)
                  n == Len(r.st.cells) + 1
                  S1 == [r.st EXCEPT !.cells = Append(@, [car |-> r.val, cdr |-> NIL]),
                                     !.occurence = (l.v :> ConsRef(n)) @@ @]
                  S2 == py2sx_loop(L, Tail(L[l.v]), n, strassym, S1, fuel - 1, F)
              IN IF r.st.err # "" THEN r
                 ELSE IF S2.err # "" THEN Raise(S2, S2.err)
                 ELSE Return(S2, ConsRef(n))
         ELSE Return(S, NIL)
    ELSE IF l.t = "pystr"
    THEN IF strassym
         THEN IF Symbol_value(l.v, F) = <<>> THEN Raise(S, EmptySymbol)
              ELSE Return(S, Sym(Symbol_value(l.v, F)))
         ELSE Return(S, StringV(l.v))
    ELSE Return(S, l)

PyFuel(L) == (Len(L) + 2) * (Len(L) + 2) + 8

\* py2sx(l, strassym) run with the Cons objects cs in existence
py2sx(L, cs, l, strassym, F) == py2sx_rec(L, l, strassym, Py2sxStart(cs), PyFuel(L), F)

(***************************************************************************)
(* Host numbers.  The type of a result follows Python: float is            *)
(* contagious, Fraction with int gives Fraction, int / int gives float.    *)
(* A float is written as the quotient it is the nearest float to.          *)
(***************************************************************************)
ZeroDivisionError == [t |-> "error", v |-> 0, w |-> 0]
IsError(x) == x.t = "error"
IsNum(x) == x.t \in {"int", "frac", "float"}
\* the denominator of a host number
Den(x) == IF x.t = "int" THEN 1 ELSE x.w

Abs(n) == IF n < 0 THEN -n ELSE n
RECURSIVE GCD(_, _)
GCD(a, b) == IF b = 0 THEN a ELSE GCD(b, a % b)
\* n/d in lowest terms with a positive denominator (d # 0)
Lowest(n, d) ==
    LET g == GCD(Abs(n), Abs(d))
        sg == IF d < 0 THEN -1 ELSE 1
    IN <<(sg * n) \div g, (sg * d) \div g>>

\* the number n/d of type ty (an int has d = 1)
Number(ty, n, d) ==
    IF ty = "int" THEN IntV(n)
    ELSE [t |-> ty, v |-> Lowest(n, d)[1], w |-> Lowest(n, d)[2]]

ArithType(x, y) ==
    IF x.t = "float" \/ y.t = "float" THEN "float"
    ELSE IF x.t = "frac" \/ y.t = "frac" THEN "frac"
    ELSE "int"

\* x + y, x - y, x * y, -x, x / y
num_add(x, y) ==
    IF IsError(x) \/ IsError(y) THEN ZeroDivisionError
    ELSE Number(ArithType(x, y), x.v * Den(y) + y.v * Den(x), Den(x) * Den(y))
num_sub(x, y) ==
    IF IsError(x) \/ IsError(y) THEN ZeroDivisionError
    ELSE Number(ArithType(x, y), x.v * Den(y) - y.v * Den(x), Den(x) * Den(y))
num_mul(x, y) ==
    IF IsError(x) \/ IsError(y) THEN ZeroDivisionError
    ELSE Number(ArithType(x, y), x.v * y.v, Den(x) * Den(y))
num_neg(x) ==
    IF IsError(x) THEN ZeroDivisionError ELSE Number(x.t, -x.v, Den(x))
num_truediv(x, y) ==
    IF IsError(x) \/ IsError(y) \/ y.v = 0 THEN ZeroDivisionError
    ELSE Number(IF ArithType(x, y) = "int" THEN "float" ELSE ArithType(x, y),
                x.v * Den(y), Den(x) * y.v)

(***************************************************************************)
(* ratcomplex.Complex.  C is [atoms, table]: the interned objects and      *)
(* Complex.__ComplexInstance.  An operation returns [st, val]: the new C   *)
(* and the value it returns.                                               *)
(***************************************************************************)
CRef(i) == [t |-> "complex", v |-> i, w |-> 0]
complexp(x) == x.t = "complex"
Re(C, x) == C.atoms[x.v].real
Im(C, x) == C.atoms[x.v].imag

\* WeakValueDictionary.get(key): the object, or 0 for None
Instance_get_mut(table, key) == 0
Instance_get(table, key) == IF key \in DOMAIN table THEN table[key] ELSE 0

\* Complex.__reduce_frac(x)
Complex_reduce_frac_mut(x) == x
Complex_reduce_frac(x) ==
    IF x.t = "frac" /\ x.w = 1 THEN IntV(x.v) ELSE x

\* the two entries of the key tuple that a part contributes
KeyNu(x) == IF x.t = "frac" THEN <<x.v, 1>> ELSE <<x.v, Den(x)>>
KeyDe(x) == IF x.t = "frac" THEN x.w ELSE 1
Complex_key(real, imag) == <<KeyNu(real), KeyDe(real), KeyNu(imag), KeyDe(imag)>>

\* Complex.__new__(real, imag)
Complex_new(C, v1, v2) ==
    LET real0 == IF complexp(v1)
                 THEN (IF complexp(v2) THEN num_sub(Re(C, v1), Im(C, v2)) ELSE Re(C, v1))
                 ELSE (IF complexp(v2) THEN num_sub(v1, Im(C, v2)) ELSE v1)
        imag0 == IF complexp(v1)
                 THEN (IF complexp(v2) THEN num_add(Im(C, v1), Re(C, v2))
                                       ELSE num_add(Im(C, v1), v2))
                 ELSE (IF complexp(v2) THEN Re(C, v2) ELSE v2)
        real == Complex_reduce_frac(real0)
        imag == Complex_reduce_frac(imag0)
        key == Complex_key(real, imag)
        obj == Instance_get(C.table, key)
        n == Len(C.atoms) + 1
    IN IF imag.v = 0 THEN [st |-> C, val |-> real]
       ELSE IF obj # 0
       THEN [st |-> [C EXCEPT !.atoms[obj].refs = "held"], val |-> CRef(obj)]
       ELSE [st |-> [atoms |-> Append(C.atoms, [cls |-> "Complex", value |-> key,
                                                real |-> real, imag |-> imag,
                                                refs |-> "held"]),
                     table |-> (key :> n) @@ C.table],
             val |-> CRef(n)]

\* Complex.__reduce_comp(real, imag); a ZeroDivisionError raised while the
\* parts were computed leaves everything as it was
Complex_reduce_comp(C, real0, imag0) ==
    LET real == Complex_reduce_frac(real0)
        imag == Complex_reduce_frac(imag0)
    IN IF IsError(real0) \/ IsError(imag0) THEN [st |-> C, val |-> ZeroDivisionError]
       ELSE IF imag.v = 0 THEN [st |-> C, val |-> real]
       ELSE Complex_new(C, real, imag)

\* __neg__, conjugate
Complex_neg(C, self) ==
    Complex_reduce_comp(C, num_neg(Re(C, self)), num_neg(Im(C, self)))
Complex_conjugate(C, self) == Complex_new(C, Re(C, self), num_neg(Im(C, self)))

\* __add__ (and __radd__, which has the same body)
Complex_add(C, self, v) ==
    IF complexp(v)
    THEN Complex_reduce_comp(C, num_add(Re(C, self), Re(C, v)), num_add(Im(C, self), Im(C, v)))
    ELSE Complex_reduce_comp(C, num_add(Re(C, self), v), Im(C, self))

\* __sub__
Complex_sub(C, self, v) ==
    IF complexp(v)
    THEN Complex_reduce_comp(C, num_sub(Re(C, self), Re(C, v)), num_sub(Im(C, self), Im(C, v)))
    ELSE Complex_reduce_comp(C, num_sub(Re(C, self), v), Im(C, self))

\* __rsub__: v - self
Complex_rsub(C, self, v) ==
    IF complexp(v)
    THEN Complex_reduce_comp(C, num_add(num_neg(Re(C, self)), Re(C, v)),
                                num_add(num_neg(Im(C, self)), Im(C, v)))
    ELSE Complex_reduce_comp(C, num_add(num_neg(Re(C, self)), v), num_neg(Im(C, self)))

\* __mul__ (and __rmul__, which has the same body)
Complex_mul(C, self, v) ==
    IF complexp(v)
    THEN Complex_reduce_comp(C,
             num_sub(num_mul(Re(C, self), Re(C, v)), num_mul(Im(C, self), Im(C, v))),
             num_add(num_mul(Re(C, self), Im(C, v)), num_mul(Im(C, self), Re(C, v))))
    ELSE Complex_reduce_comp(C, num_mul(Re(C, self), v), num_mul(Im(C, self), v))

\* __truediv__: self / v
Complex_truediv(C, self, v) ==
    IF complexp(v)
    THEN LET d == num_add(num_mul(Re(C, v), Re(C, v)), num_mul(Im(C, v), Im(C, v)))
         IN Complex_reduce_comp(C,
                num_truediv(num_add(num_mul(Re(C, self), Re(C, v)),
                                    num_mul(Im(C, self), Im(C, v))), d),
                num_truediv(num_sub(num_mul(Im(C, self), Re(C, v)),
                                    num_mul(Re(C, self), Im(C, v))), d))
    ELSE Complex_reduce_comp(C, num_truediv(Re(C, self), v), num_truediv(Im(C, self), v))

\* __rtruediv__: v / self
Complex_rtruediv(C, self, v) ==
    LET d == num_add(num_mul(Re(C, self), Re(C, self)), num_mul(Im(C, self), Im(C, self)))
    IN IF complexp(v)
       THEN Complex_reduce_comp(C,
                num_truediv(num_add(num_mul(Re(C, self), Re(C, v)),
                                    num_mul(Im(C, self), Im(C, v))), d),
                num_truediv(num_add(num_mul(num_neg(Im(C, self)), Re(C, v)),
                                    num_mul(Re(C, self), Im(C, v))), d))
       ELSE Complex_reduce_comp(C, num_truediv(num_mul(Re(C, self), v), d),
                                   num_truediv(num_mul(num_neg(Im(C, self)), v), d))

(***************************************************************************)
(* Symbol.__new__ and Char.__new__.  C is [atoms, table]: the interned     *)
(* objects and the class's WeakValueDictionary.  A host character is a     *)
(* string: itself where TLA+ can write it, its escape otherwise.           *)
(***************************************************************************)
AtomRef(i) == [t |-> "atom", v |-> i, w |-> 0]
Exc(msg) == [t |-> "raise", v |-> msg, w |-> 0]
IllegalChar == "Char(): Illegal argument!"

\* obj = table.get(v); if obj is None: obj = new object; table[v] = obj
Instance_new(C, cls, v) ==
    LET obj == Instance_get(C.table, v)
        n == Len(C.atoms) + 1
    IN IF obj # 0
       THEN [st |-> [C EXCEPT !.atoms[obj].refs = "held"], val |-> AtomRef(obj)]
       ELSE [st |-> [atoms |-> Append(C.atoms, [cls |-> cls, value |-> v,
                                                real |-> NIL, imag |-> NIL,
                                                refs |-> "held"]),
                     table |-> (v :> n) @@ C.table],
             val |-> AtomRef(n)]

\* Symbol.__new__(value) for a host str value
Symbol_new(C, value, F) ==
    IF Symbol_value(value, F) = <<>> THEN [st |-> C, val |-> Exc(EmptySymbol)]
    ELSE Instance_new(C, "Symbol", Symbol_value(value, F))

\* Char.__NameToCharDic
NameToCharDic ==
    { <<<<"B", "a", "c", "k", "s", "p", "a", "c", "e">>, "\\x08">>,
      <<<<"E", "s", "c", "a", "p", "e">>, "\\x1b">>,
      <<<<"L", "i", "n", "e", "f", "e", "e", "d">>, "\n">>,
      <<<<"N", "e", "w", "l", "i", "n", "e">>, "\n">>,
      <<<<"P", "a", "g", "e">>, "\f">>,
      <<<<"R", "e", "t", "u", "r", "n">>, "\r">>,
      <<<<"R", "u", "b", "o", "u", "t">>, "\\x1f">>,
      <<<<"S", "p", "a", "c", "e">>, " ">>,
      <<<<"T", "a", "b">>, "\t">> }
NameToChar_get(k, default) ==
    IF \E e \in NameToCharDic : e[1] = k
    THEN <<(CHOOSE e \in NameToCharDic : e[1] = k)[2]>>
    ELSE default

RECURSIVE HexVal(_)
\* int(text, 16)
HexVal(text) ==
    IF text = <<>> THEN 0
    ELSE 16 * HexVal(SubSeq(text, 1, Len(text) - 1))
         + IndexIn(HexDigits, LowerChar(text[Len(text)])) - 1
\* "{:c}".format(n); a control character without a TLA+ escape is written
\* as the one-character text named by its \x escape
Chr(n) ==
    CASE n \in 0..31 -> ControlChars[n + 1]
      [] n \in 32..95 -> Ascii[n - 31]
      [] n \in 97..122 -> LowerLetters[n - 96]
      [] n \in 123..126 -> <<"{", "|", "}", "~">>[n - 122]
      [] n = 127 -> "\\x7f"
      [] OTHER -> ToString(n)

\* v.startswith("#\\"), _is_charhex(v), v.replace("#\\", "")
StartsHashBackslash(v) == Len(v) >= 2 /\ v[1] = "#" /\ v[2] = "\\"
is_charhex(v) ==
    /\ Len(v) >= 4
    /\ StartsHashBackslash(v)
    /\ v[3] \in {"u", "x", "U", "X"}
    /\ \A i \in 4..Len(v) : IndexIn(HexDigits, LowerChar(v[i])) # 0
RECURSIVE RemoveHashBackslash(_)
RemoveHashBackslash(v) ==
    IF v = <<>> THEN <<>>
    ELSE IF StartsHashBackslash(v) THEN RemoveHashBackslash(SubSeq(v, 3, Len(v)))
    ELSE <<Head(v)>> \o RemoveHashBackslash(Tail(v))

\* Char.IsChar(s) for a host str s
Char_IsChar(s) ==
    IF is_charhex(s) THEN HexVal(SubSeq(s, 4, Len(s))) <= 1114111
    ELSE LET r == IF StartsHashBackslash(s) THEN RemoveHashBackslash(s) ELSE s
         IN Len(r) = 1 \/ NameToChar_get(Capitalize(r), <<>>) # <<>>

\* the text v that Char.__new__ looks up and stores
Char_value(v) ==
    LET a == IF is_charhex(v) THEN <<Chr(HexVal(SubSeq(v, 4, Len(v))))>>
             ELSE IF StartsHashBackslash(v) THEN RemoveHashBackslash(v)
             ELSE v
    IN NameToChar_get(Capitalize(a), a)

\* Char.__new__(value) for a host str value
Char_new(C, value) ==
    IF ~Char_IsChar(value) THEN [st |-> C, val |-> Exc(IllegalChar)]
    ELSE Instance_new(C, "Char", Char_value(value))

(***************************************************************************)
(* The streamer (SxprStreamerBaseClass over _StringStreamer).  A streamer  *)
(* is a record of the object's attributes; the end of the text is the      *)
(* empty string "", as in the code.                                        *)
(***************************************************************************)
Token(text) == [t |-> "token", v |-> text, w |-> 0]
LPar == Token("(")
RPar == Token(")")
Dot == Token(".")
Quote == Token("'")
FuncRef == Token("#'")
ComplexToken == Token("#C")
Undef == Token("<undef>")
None == [t |-> "none", v |-> 0, w |-> 0]
\* an exception whose message carries streamer.line and streamer.col
RaiseAt(kind, st) == [t |-> "raise", v |-> kind, w |-> <<st.line, st.col>>]
IsRaise(x) == x.t = "raise"

\* _StringStreamer._getchar applied to the text and the index
GetChar(text, index) == IF index < Len(text) THEN text[index + 1] ELSE ""

\* _StringStreamer.__init__(text)
StringStreamer(text) ==
    [text |-> text, index |-> IF Len(text) > 0 THEN 1 ELSE 0,
     lookahead_token |-> Undef, lookahead_line |-> 1, lookahead_col |-> 0,
     lookahead_char |-> GetChar(text, 0), line |-> 1, col |-> 0]

\* SxprStreamerBaseClass.read(): the streamer afterwards (every character
\* of the model's texts has east asian width Na, one column)
Streamer_read(st) ==
    LET v == st.lookahead_char
        s1 == IF v # ""
              THEN [st EXCEPT !.lookahead_char = GetChar(st.text, st.index),
                              !.index = IF st.index < Len(st.text) THEN @ + 1 ELSE @]
              ELSE st
    IN IF v \in {"\r", "\n"}
       THEN [s1 EXCEPT !.lookahead_col = 0, !.lookahead_line = @ + 1]
       ELSE IF v # "" THEN [s1 EXCEPT !.lookahead_col = @ + 1]
       ELSE s1

WHITESPACES == {" ", "\t", "\r", "\n"}
DELIMITERS == {"(", ")", "\""} \cup WHITESPACES

\* d = streamer.read(); while d in WHITESPACES: d = streamer.read()
\* gives the streamer just before the read that returned the final d
RECURSIVE SkipWhitespace(_)
SkipWhitespace(st) ==
    IF st.lookahead_char \in WHITESPACES THEN SkipWhitespace(Streamer_read(st)) ELSE st

\* while not d in {"\r", "\n", ""}: d = streamer.read()
RECURSIVE SkipLine(_)
SkipLine(st) ==
    IF st.lookahead_char \in {"\r", "\n", ""} THEN Streamer_read(st)
    ELSE SkipLine(Streamer_read(st))

\* the loop of the block comment, entered with d just read; [st, eof]
RECURSIVE SkipBlock(_, _)
SkipBlock(st, d) ==
    IF d # "|" \/ st.lookahead_char # "#"
    THEN IF st.lookahead_char = ""
         THEN [st |-> Streamer_read(st), eof |-> TRUE]
         ELSE SkipBlock(Streamer_read(st), st.lookahead_char)
    ELSE [st |-> st, eof |-> FALSE]

\* while lookahead_char is neither "" nor a delimiter: s = s + streamer.read()
RECURSIVE ReadWord(_, _)
ReadWord(st, s) ==
    IF st.lookahead_char # "" /\ st.lookahead_char \notin DELIMITERS
    THEN ReadWord(Streamer_read(st), Append(s, st.lookahead_char))
    ELSE [st |-> st, s |-> s]

(***************************************************************************)
(* The tokenizer.  An operator that reads returns the streamer afterwards  *)
(* next to what the code returns or raises.                                *)
(***************************************************************************)
CharV(text) == [t |-> "char", v |-> text, w |-> 0]
\* the Array(dim) that the tokenizer builds, before it gets its value
ArrayToken(dim) == [t |-> "arraytoken", v |-> dim, w |-> 0]
Result(st, val) == [st |-> st, val |-> val]
Upper(text) == [i \in 1..Len(text) |-> UpperChar(text[i])]
\* Symbol(s) as a value
SymbolOf(s, F) == Sym(Symbol_value(s, F))

Digits36 == Digit \o LowerLetters
DigitVal(ch) == IndexIn(Digits36, LowerChar(ch)) - 1
RECURSIVE BaseVal(_, _)
BaseVal(text, base) ==
    IF text = <<>> THEN 0
    ELSE base * BaseVal(SubSeq(text, 1, Len(text) - 1), base) + DigitVal(text[Len(text)])

\* the digits of int(u, base) for unsigned u: a prefix 0b, 0o or 0x that
\* names the base is dropped
Unprefixed(u, base) ==
    IF /\ Len(u) >= 2
       /\ u[1] = "0"
       /\ \/ base = 2 /\ LowerChar(u[2]) = "b"
          \/ base = 8 /\ LowerChar(u[2]) = "o"
          \/ base = 16 /\ LowerChar(u[2]) = "x"
    THEN SubSeq(u, 3, Len(u)) ELSE u
\* int(text, base) with the digits w of text
PyIntOf(text, w, base) ==
    IF base \in 2..36 /\ Len(w) >= 1 /\ \A i \in 1..Len(w) : DigitVal(w[i]) \in 0..(base - 1)
    THEN [ok |-> TRUE,
          n |-> IF text[1] = "-" THEN -BaseVal(w, base) ELSE BaseVal(w, base)]
    ELSE [ok |-> FALSE, n |-> 0]
\* int(text, base); ok is FALSE where it raises ValueError
PyInt(text, base) == PyIntOf(text, Unprefixed(StripSign(text), base), base)

\* ret = Fraction(ret, x); if ret.denominator == 1: ret = ret.numerator
Ratio(n, x) ==
    IF x = 0 THEN ZeroDivisionError
    ELSE IF Lowest(n, x)[2] = 1 THEN IntV(Lowest(n, x)[1])
    ELSE Frac(Lowest(n, x)[1], Lowest(n, x)[2])

\* text.replace(mark, "") for a two-character mark that starts with "#"
RemoveMark(text) ==
    SubSeq(text, 1, IndexIn(text, "#") - 1) \o SubSeq(text, IndexIn(text, "#") + 2, Len(text))
\* the value of a token s that matches _is_bin, _is_oct or _is_hex; k is
\* where its "/" is, 0 if it has none
PrefixedAt(s, k, base) ==
    IF k = 0 THEN IntV(PyInt(RemoveMark(Lower(s)), base).n)
    ELSE Ratio(PyInt(RemoveMark(Lower(SubSeq(s, 1, k - 1))), base).n,
               PyInt(SubSeq(s, k + 1, Len(s)), base).n)
PrefixedValue(s, base) == PrefixedAt(s, IndexIn(s, "/"), base)

\* the value of a token s that matches _is_radix, from the inside out:
\* n and x are int(val[0], base) and int(val[1], base)
RadixRatio(s, sgn, n, x, F) ==
    IF ~n.ok \/ ~x.ok \/ x.n = 0 THEN SymbolOf(s, F) ELSE Ratio(sgn * n.n, x.n)
RadixInt(s, sgn, n, F) == IF ~n.ok THEN SymbolOf(s, F) ELSE IntV(sgn * n.n)
\* val = valstr[1].split("/"), k being where the "/" is
RadixAt(s, sgn, base, val, k, F) ==
    IF k = 0 THEN RadixInt(s, sgn, PyInt(val, base), F)
    ELSE RadixRatio(s, sgn, PyInt(SubSeq(val, 1, k - 1), base),
                    PyInt(SubSeq(val, k + 1, Len(val)), base), F)
\* valstr = sgnval[1].split("r", 1), r being where the "r" is
RadixIn(s, sgn, rest, r, F) ==
    RadixAt(s, sgn, PyInt(SubSeq(rest, 1, r - 1), 10).n, SubSeq(rest, r + 1, Len(rest)),
            IndexIn(SubSeq(rest, r + 1, Len(rest)), "/"), F)
\* sgnval = s.lower().split("#"), h being where the "#" is
RadixFrom(s, l, h, F) ==
    RadixIn(s, IF SubSeq(l, 1, h - 1) = <<"-">> THEN -1 ELSE 1,
            SubSeq(l, h + 1, Len(l)), IndexIn(SubSeq(l, h + 1, Len(l)), "r"), F)
RadixValue(s, F) == RadixFrom(s, Lower(s), IndexIn(s, "#"), F)

\* float(s.lower().replace("d", "e").replace("f", "e").replace("s", "e")),
\* from the inside out: the float mant * 10^k
Scaled(mant, k) ==
    IF k >= 0 THEN Number("float", mant * 10^k, 1) ELSE Number("float", mant, 10^(-k))
\* m is the mantissa text and ex the exponent
FloatOf(sign, m, ex) ==
    Scaled(sign * BaseVal(SelectSeq(m, IsDigit), 10),
           ex - (IF IndexIn(m, ".") = 0 THEN 0 ELSE Len(m) - IndexIn(m, ".")))
\* e is where the exponent letter of u is, 0 if it has none
FloatAt(sign, u, e) ==
    IF e = 0 THEN FloatOf(sign, u, 0)
    ELSE FloatOf(sign, SubSeq(u, 1, e - 1), PyInt(SubSeq(u, e + 1, Len(u)), 10).n)
ExponentAt(u) ==
    IF \E i \in 1..Len(u) : u[i] \in {"d", "e", "f", "s"}
    THEN CHOOSE i \in 1..Len(u) : u[i] \in {"d", "e", "f", "s"}
    ELSE 0
FloatValue(s) ==
    FloatAt(IF s[1] = "-" THEN -1 ELSE 1, StripSign(Lower(s)), ExponentAt(StripSign(Lower(s))))

\* the tests on a word s that starts with "#" and is neither a Char nor the
\* prefix of "#(": s2 is the streamer after the whitespace that follows
HashWord(s2, s, F) ==
    IF F.enableComplex /\ Upper(s) = <<"#", "C">> /\ s2.lookahead_char = "("
    THEN Result(s2, ComplexToken)
    ELSE IF F.enableArray /\ is_arrayprefix(s) /\ s2.lookahead_char = "("
    THEN Result(s2, ArrayToken(PyInt(SubSeq(s, 2, Len(s) - 1), 10).n))
    ELSE Result(s2, SymbolOf(s, F))

\* the chain of tests on the word s, read up to the streamer st
ClassifyWord(st, s, F) ==
    IF is_integer(s) THEN Result(st, IntV(PyInt(s, 10).n))
    ELSE IF is_number(s) THEN Result(st, FloatValue(s))
    ELSE IF is_bin(s) /\ F.enableBin THEN Result(st, PrefixedValue(s, 2))
    ELSE IF is_oct(s) /\ F.enableOct THEN Result(st, PrefixedValue(s, 8))
    ELSE IF is_hex(s) /\ F.enableHex THEN Result(st, PrefixedValue(s, 16))
    ELSE IF is_radix(s) /\ F.enableRadix THEN Result(st, RadixValue(s, F))
    ELSE IF is_fraction(s) /\ F.enableFrac
    THEN Result(st, Ratio(PyInt(SubSeq(s, 1, IndexIn(s, "/") - 1), 10).n,
                          PyInt(SubSeq(s, IndexIn(s, "/") + 1, Len(s)), 10).n))
    ELSE IF s[1] = "#"
    THEN IF F.enableChar /\ StartsHashBackslash(s)
         THEN Result(st, IF Char_IsChar(s) THEN CharV(Char_value(s)) ELSE SymbolOf(s, F))
         ELSE IF F.enableArray /\ s = <<"#">> /\ st.lookahead_char = "("
         THEN Result(st, ArrayToken(1))
         ELSE HashWord(SkipWhitespace(st), s, F)
    ELSE Result(st, SymbolOf(s, F))

\* for _ in (1, .., more): if the lookahead is no digit of D: break;
\* digit = digit + streamer.read()
RECURSIVE ReadDigits(_, _, _, _)
ReadDigits(st, digit, D, more) ==
    IF more = 0 \/ st.lookahead_char \notin D THEN [st |-> st, s |-> digit]
    ELSE ReadDigits(Streamer_read(st), Append(digit, st.lookahead_char), D, more - 1)

\* "{:c}".format(n) of the digits read: the character, or OverflowError
Escaped(r, base) ==
    IF BaseVal(r.s, base) > 1114111
    THEN [st |-> r.st, d |-> <<>>, err |-> "OverflowError"]
    ELSE [st |-> r.st, d |-> <<Chr(BaseVal(r.s, base))>>, err |-> ""]

\* the dictionary of the one-letter escapes, with d as the default
NamedEscape(d) ==
    CASE d = "a" -> Chr(7)
      [] d = "b" -> Chr(8)
      [] d = "e" -> Chr(27)
      [] d = "f" -> Chr(12)
      [] d = "n" -> Chr(10)
      [] d = "r" -> Chr(13)
      [] d = "t" -> Chr(9)
      [] d = "v" -> Chr(11)
      [] OTHER -> d

\* what follows a backslash inside a string while enableEscape is set
ReadEscape(st) ==
    LET d == st.lookahead_char
        s1 == Streamer_read(st)
        first == <<s1.lookahead_char>>
        s2 == Streamer_read(s1)
        hex == s1.lookahead_char \in HexDigitSet
    IN IF d \in OctDigits THEN Escaped(ReadDigits(s1, <<d>>, OctDigits, 2), 8)
       ELSE IF LowerChar(d) = "x" /\ hex
       THEN Escaped(ReadDigits(s2, first, HexDigitSet, 1), 16)
       ELSE IF d = "u" /\ hex THEN Escaped(ReadDigits(s2, first, HexDigitSet, 3), 16)
       ELSE IF d = "U" /\ hex THEN Escaped(ReadDigits(s2, first, HexDigitSet, 7), 16)
       ELSE [st |-> s1, d |-> IF d = "" THEN <<>> ELSE <<NamedEscape(d)>>, err |-> ""]

\* the loop that collects a string up to the closing quote or the end
RECURSIVE ReadString(_, _, _)
\* s = s + d for the character d that an escape e stands for
AfterEscape(e, s, F) ==
    IF e.err # "" THEN [st |-> e.st, s |-> s, err |-> e.err]
    ELSE ReadString(e.st, s \o e.d, F)
ReadString(st, s, F) ==
    IF st.lookahead_char = "" \/ st.lookahead_char = "\""
    THEN [st |-> st, s |-> s, err |-> ""]
    ELSE IF F.enableEscape /\ st.lookahead_char = "\\"
    THEN AfterEscape(ReadEscape(Streamer_read(st)), s, F)
    ELSE ReadString(Streamer_read(st), Append(s, st.lookahead_char), F)

\* the end of the branch d == '"': r is what the loop collected
StringToken(r) ==
    IF r.err # "" THEN Result(r.st, RaiseAt(r.err, r.st))
    ELSE IF r.st.lookahead_char = "" THEN Result(r.st, RaiseAt("EOFError", r.st))
    ELSE Result(Streamer_read(r.st), StringV(r.s))
\* the last branch: r is the word read
WordToken(r, F) == ClassifyWord(r.st, r.s, F)

\* _sxpr_tokenizer from the test d == "" on: d is the character read last
Tokenize(st, d, F) ==
    IF d = "" THEN Result(st, None)
    ELSE IF F.enableQuote /\ d = "'"
    THEN Result(st, IF st.lookahead_char \in WHITESPACES THEN SymbolOf(<<d>>, F) ELSE Quote)
    ELSE IF F.enableFuncRef /\ d = "#" /\ st.lookahead_char = "'"
    THEN Result(Streamer_read(st),
                IF Streamer_read(st).lookahead_char \in DELIMITERS
                THEN SymbolOf(<<"#", "'">>, F) ELSE FuncRef)
    ELSE IF d = "(" THEN Result(st, LPar)
    ELSE IF d = ")" THEN Result(st, RPar)
    ELSE IF d = "." /\ st.lookahead_char \in DELIMITERS THEN Result(st, Dot)
    ELSE IF d = "\"" THEN StringToken(ReadString(st, <<>>, F))
    ELSE WordToken(ReadWord(st, <<d>>), F)

RECURSIVE sxpr_tokenizer(_, _)
\* the end of the block comment branch: b is where the comment loop stopped
AfterBlock(b, F) ==
    IF b.eof THEN Result(b.st, RaiseAt("EOFError", b.st))
    ELSE sxpr_tokenizer(Streamer_read(b.st), F)
\* _sxpr_tokenizer once the whitespace is skipped: d is the character read
\* and st the streamer after it
TokenizeFrom(st, d, F) ==
    IF F.enableLineComment /\ d = ";" THEN sxpr_tokenizer(SkipLine(st), F)
    ELSE IF F.enableBlockComment /\ d = "#" /\ st.lookahead_char = "|"
    THEN AfterBlock(SkipBlock(Streamer_read(Streamer_read(st)),
                              Streamer_read(st).lookahead_char), F)
    ELSE Tokenize(st, d, F)
\* _sxpr_tokenizer(streamer)
sxpr_tokenizer(streamer, F) ==
    TokenizeFrom(Streamer_read(SkipWhitespace(streamer)),
                 SkipWhitespace(streamer).lookahead_char, F)

IsException(x) == x.t \in {"raise", "error"}

\* streamer.col = streamer.lookahead_col; streamer.line = streamer.lookahead_line
\* on a streamer whose lookahead_token is r
Located(st, r) ==
    [st EXCEPT !.lookahead_token = r, !.col = st.lookahead_col, !.line = st.lookahead_line]
\* streamer.lookahead_token = _sxpr_tokenizer(streamer); return r
Lookahead(t2, r) ==
    IF IsException(t2.val) THEN t2
    ELSE Result([t2.st EXCEPT !.lookahead_token = t2.val], r)
\* a variant that takes the input to end after the token it returns
NextTokenFrom_mut(t1, F) ==
    IF IsException(t1.val) THEN t1
    ELSE Result([Located(t1.st, t1.val) EXCEPT !.lookahead_token = None], t1.val)
\* _next_token once the token to return is known: t1 is the streamer with
\* that token
NextTokenFrom(t1, F) ==
    IF IsException(t1.val) THEN t1
    ELSE IF t1.val = None THEN Result(Located(t1.st, t1.val), t1.val)
    ELSE Lookahead(sxpr_tokenizer(Located(t1.st, t1.val), F), t1.val)
\* _next_token(streamer): the streamer afterwards and r, or what was raised
next_token(streamer, F) ==
    NextTokenFrom(IF streamer.lookahead_token = Undef THEN sxpr_tokenizer(streamer, F)
                  ELSE Result(streamer, streamer.lookahead_token), F)

(***************************************************************************)
(* The parser.  P is what a read works on: the streamer st, the heap H the *)
(* new Cons and Array objects go to, and the intern state C of Complex.    *)
(* A read gives [P, val]: P afterwards and what was returned or raised.    *)
(***************************************************************************)
Read(P, val) == [P |-> P, val |-> val]
\* Cons(a, d) in the heap H, and the object it made
NewCons(H, a, d) == [H EXCEPT !.cells = Append(@, [car |-> a, cdr |-> d])]
\* _next_token(streamer) on the streamer of P
NextToken(P, F) ==
    LET t == next_token(P.st, F) IN Read([P EXCEPT !.st = t.st], t.val)
SyntaxError(msg, P) == Read(P, RaiseAt(msg, P.st))

RECURSIVE sxpr_read_obj(_, _)
RECURSIVE sxpr_read_list(_, _)
RECURSIVE ConsSeq(_, _, _)

\* the branch tkn is __Complex of _sxpr_read_obj, token by token
ComplexFail(t) ==
    IF IsException(t.val) THEN t ELSE SyntaxError("Invalid Complex expression", t.P)
ComplexMade(P, c) == Read([P EXCEPT !.C = c.st], c.val)
ComplexRPar(re, im, t) ==
    IF t.val # RPar THEN ComplexFail(t) ELSE ComplexMade(t.P, Complex_new(t.P.C, re, im))
ComplexImag(re, t, F) ==
    IF ~IsNum(t.val) THEN ComplexFail(t) ELSE ComplexRPar(re, t.val, NextToken(t.P, F))
ComplexReal(t, F) ==
    IF ~IsNum(t.val) THEN ComplexFail(t) ELSE ComplexImag(t.val, NextToken(t.P, F), F)
ComplexLPar(t, F) ==
    IF t.val # LPar THEN ComplexFail(t) ELSE ComplexReal(NextToken(t.P, F), F)
ReadComplex(P, F) == ComplexLPar(NextToken(P, F), F)

\* Cons(Symbol("quote"), Cons(o)) and Cons(Symbol("function"), Cons(o))
Quoted(tkn, o) ==
    IF IsException(o.val) THEN o
    ELSE Read([o.P EXCEPT !.H = NewCons(NewCons(o.P.H, o.val, NIL),
                                        IF tkn = Quote THEN SymQuote ELSE SymFunction,
                                        ConsRef(Len(o.P.H.cells) + 1))],
              ConsRef(Len(o.P.H.cells) + 2))

\* tkn.value = l; return tkn, for the Array the tokenizer made
ArrayOf(tkn, l) ==
    IF IsException(l.val) THEN l
    ELSE Read([l.P EXCEPT !.H.arrays = Append(@, [dim |-> tkn.v, value |-> l.val])],
              ArrRef(Len(l.P.H.arrays) + 1))
\* the branch type(tkn) is Array: la is the lookahead token before the call
\* of _next_token that gave t2
ReadArray(tkn, la, t2, F) ==
    IF IsException(t2.val) THEN t2
    ELSE IF la # LPar THEN SyntaxError("Invalid Array expression", t2.P)
    ELSE ArrayOf(tkn, sxpr_read_list(t2.P, F))

\* _sxpr_read_obj after tkn = _next_token(streamer)
ReadObjFrom(t, F) ==
    IF IsException(t.val) \/ t.val = None THEN t
    ELSE IF t.val = Quote \/ t.val = FuncRef THEN Quoted(t.val, sxpr_read_obj(t.P, F))
    ELSE IF t.val.t \in {"int", "float", "frac", "sym", "str", "char"} THEN t
    ELSE IF t.val = ComplexToken THEN ReadComplex(t.P, F)
    ELSE IF t.val.t = "arraytoken"
    THEN ReadArray(t.val, t.P.st.lookahead_token, NextToken(t.P, F), F)
    ELSE IF t.val = LPar THEN sxpr_read_list(t.P, F)
    ELSE SyntaxError("Unexpected token", t.P)

\* _sxpr_read_obj(streamer)
sxpr_read_obj(P, F) == ReadObjFrom(NextToken(P, F), F)

\* the branch lookahead_token is __Dot of the loop: c.cdr = the object read,
\* then a ")" has to follow
DotExpected(t) ==
    IF IsException(t.val) THEN t ELSE SyntaxError("')' is expected", t.P)
DotClose(P, F) ==
    IF P.st.lookahead_token = RPar THEN Read(P, NIL) ELSE DotExpected(NextToken(P, F))
DotCdr(d, c, F) ==
    IF IsException(d.val) THEN d
    ELSE DotClose([d.P EXCEPT !.H.cells[c.v].cdr = d.val], F)
DotTail(t, c, F) ==
    IF IsException(t.val) THEN t ELSE DotCdr(sxpr_read_obj(t.P, F), c, F)

\* c.cdr = Cons(a) in the heap H
LinkCons(H, c, a) ==
    [NewCons(H, a, NIL) EXCEPT !.cells[c.v].cdr = ConsRef(Len(H.cells) + 1)]
\* c.cdr = Cons(o); c = c.cdr, and on with the loop
NextElement(o, c, F) ==
    IF IsException(o.val) THEN o
    ELSE ConsSeq([o.P EXCEPT !.H = LinkCons(o.P.H, c, o.val)],
                 ConsRef(Len(o.P.H.cells) + 1), F)
EofInList(t) == SyntaxError("Unexpected EOF", t.P)

\* the loop CONSSEQ of _sxpr_read_list with c the last cell; val is NIL
\* when the loop ends at a ")"
ConsSeq(P, c, F) ==
    IF P.st.lookahead_token = RPar THEN Read(P, NIL)
    ELSE IF P.st.lookahead_token = None THEN EofInList(NextToken(P, F))
    ELSE IF P.st.lookahead_token = Dot THEN DotTail(NextToken(P, F), c, F)
    ELSE NextElement(sxpr_read_obj(P, F), c, F)

\* the three steps of _sxpr_read_list on a list that is not empty
ListClose(t, first) == IF IsException(t.val) THEN t ELSE Read(t.P, first)
ListRest(seq, first, F) ==
    IF IsException(seq.val) THEN seq ELSE ListClose(NextToken(seq.P, F), first)
ListFrom(o, F) ==
    IF IsException(o.val) THEN o
    ELSE ListRest(ConsSeq([o.P EXCEPT !.H = NewCons(o.P.H, o.val, NIL)],
                          ConsRef(Len(o.P.H.cells) + 1), F),
                  ConsRef(Len(o.P.H.cells) + 1), F)
EmptyList(t) == IF IsException(t.val) THEN t ELSE Read(t.P, NIL)

\* _sxpr_read_list(streamer)
sxpr_read_list(P, F) ==
    IF P.st.lookahead_token = RPar THEN EmptyList(NextToken(P, F))
    ELSE ListFrom(sxpr_read_obj(P, F), F)

\* sxparse(text) for a host str text: SxprStringReader(text)()
sxparse(H, C, text, F) ==
    sxpr_read_obj([st |-> StringStreamer(text), H |-> H, C |-> C], F)

(***************************************************************************)
(* repr() and ==.  Cons.__eq__ compares the repr of the two structures, so *)
(* repr is modelled down to the text.                                      *)
(***************************************************************************)
\* repr(ch) inside the quotes q of a host str
PyReprChar(ch, q) ==
    CASE ch = "\\" -> <<"\\", "\\">>
      [] ch = q -> <<"\\", q>>
      [] ch = "\n" -> <<"\\", "n">>
      [] ch = "\r" -> <<"\\", "r">>
      [] ch = "\t" -> <<"\\", "t">>
      [] ch = "\\x7f" -> <<"\\", "x", "7", "f">>
      [] IndexIn(ControlChars, ch) # 0 /\ ch \notin {"\n", "\r", "\t"} ->
             <<"\\", "x">> \o Hex2(IndexIn(ControlChars, ch) - 1)
      [] OTHER -> <<ch>>
RECURSIVE PyReprBody(_, _)
PyReprBody(text, q) ==
    IF text = <<>> THEN <<>> ELSE PyReprChar(Head(text), q) \o PyReprBody(Tail(text), q)
\* repr(text) of a host str
PyReprStr(text) ==
    LET q == IF "'" \in Range(text) /\ "\"" \notin Range(text) THEN "\"" ELSE "'"
    IN <<q>> \o PyReprBody(text, q) \o <<q>>

\* Char.__CharToNameDic
CharToNameDic ==
    { <<"\\x08", <<"B", "a", "c", "k", "s", "p", "a", "c", "e">>>>, <<"\t", <<"T", "a", "b">>>>, <<"\n", <<"L", "i", "n", "e", "f", "e", "e", "d">>>>,
      <<"\f", <<"P", "a", "g", "e">>>>, <<"\r", <<"R", "e", "t", "u", "r", "n">>>>, <<"\\x1b", <<"E", "s", "c", "a", "p", "e">>>>,
      <<"\\x1f", <<"R", "u", "b", "o", "u", "t">>>>, <<" ", <<"S", "p", "a", "c", "e">>>> }
\* Char.__repr__ for a character below chr(127)
Char_repr(value) ==
    LET ch == value[1]
        named == {e \in CharToNameDic : e[1] = ch}
        inner == IF named # {} THEN (CHOOSE e \in named : TRUE)[2]
                 ELSE IF IndexIn(ControlChars, ch) # 0
                 THEN <<"\\", "x">> \o Hex2(IndexIn(ControlChars, ch) - 1)
                 ELSE JsonBody(value)
    IN <<"C", "h", "a", "r", "(">> \o <<"\"">> \o inner \o <<"\"", ")">>

\* repr of a host number; the repr of a float is one-to-one on floats and
\* is written here as the quotient the float stands for
Number_repr(x) ==
    CASE x.t = "int" -> IntStr(x.v)
      [] x.t = "frac" -> <<"F", "r", "a", "c", "t", "i", "o", "n", "(">> \o IntStr(x.v) \o <<",", " ">> \o IntStr(x.w) \o <<")">>
      [] x.t = "float" -> <<"f", "l", "o", "a", "t", "(">> \o IntStr(x.v) \o <<"/">> \o IntStr(x.w) \o <<")">>

RECURSIVE Cons_Sxpr2Repr(_, _, _, _)
RECURSIVE Sxpr2ReprLoop(_, _, _, _, _, _)

\* Cons.__repr__: __Sxpr2Repr with an empty occurence dictionary
Cons_repr(H, C, s) == Cons_Sxpr2Repr(H, C, s, <<>>).s

\* repr(s) of a value that is not a Cons
Atom_repr(H, C, s) ==
    CASE s.t = "nil" -> <<"N", "I", "L">>
      [] s.t = "none" -> <<"N", "o", "n", "e">>
      [] s.t \in {"int", "frac", "float"} -> Number_repr(s)
      [] s.t = "sym" -> <<"S", "y", "m", "b", "o", "l", "(">> \o PyReprStr(s.v) \o <<")">>
      [] s.t = "str" -> <<"S", "t", "r", "i", "n", "g", "(">> \o PyReprStr(s.v) \o <<")">>
      [] s.t = "char" -> Char_repr(s.v)
      [] s.t = "complex" -> <<"C", "o", "m", "p", "l", "e", "x", "(">> \o Number_repr(Re(C, s)) \o <<",", " ">>
                                \o Number_repr(Im(C, s)) \o <<")">>
      [] s.t = "arr" -> <<"A", "r", "r", "a", "y", "(">> \o IntStr(H.arrays[s.v].dim) \o <<",", " ">>
                            \o Cons_repr(H, C, H.arrays[s.v].value) \o <<")">>

\* Cons.__Sxpr2Repr(s, occurence): the text and the dictionary afterwards.
\* occurence lists the Cons objects in the order they were entered, so
\* that occurence[id(s)] is the position of s in it, less one
Cons_Sxpr2Repr(H, C, s, occurence) ==
    IF ~consp(s) THEN [s |-> Atom_repr(H, C, s), occurence |-> occurence]
    ELSE Sxpr2ReprLoop(H, C, s, occurence, <<>>, <<>>)

\* the while loop of __Sxpr2Repr
Sxpr2ReprLoop(H, C, s, occurence, sbeg, send) ==
    LET A == IF s.t = "arr" THEN H.arrays[s.v] ELSE H.arrays[car(H, s).v]
        inner == Cons_Sxpr2Repr(H, C, A.value, occurence)
        seen == Append(occurence, s.v)
        acar == Cons_Sxpr2Repr(H, C, A.value, seen)
        ccar == Cons_Sxpr2Repr(H, C, car(H, s), seen)
    IN IF s.t = "arr"
       THEN [s |-> sbeg \o <<"A", "r", "r", "a", "y", "(">> \o IntStr(A.dim) \o <<",", " ">> \o inner.s
                        \o <<")">> \o send,
             occurence |-> inner.occurence]
       ELSE IF ~consp(s)
       THEN [s |-> sbeg \o Atom_repr(H, C, s) \o send, occurence |-> occurence]
       ELSE IF s.v \in Range(occurence)
       THEN [s |-> sbeg \o <<"<", "C", "o", "n", "s", " ", "a", "t", " ", "#">> \o IntStr(IndexIn(occurence, s.v) - 1)
                        \o <<">">> \o send,
             occurence |-> occurence]
       ELSE IF car(H, s).t = "arr"
       THEN Sxpr2ReprLoop(H, C, cdr(H, s), acar.occurence,
                          sbeg \o <<"C", "o", "n", "s", "(", "A", "r", "r", "a", "y", "(">> \o IntStr(A.dim) \o <<",", " ">>
                               \o acar.s \o <<")", ",", " ">>,
                          send \o <<")">>)
       ELSE Sxpr2ReprLoop(H, C, cdr(H, s), ccar.occurence,
                          sbeg \o <<"C", "o", "n", "s", "(">> \o ccar.s \o <<",", " ">>,
                          send \o <<")">>)

\* x == y for two host numbers
NumEq(x, y) == x.v * Den(y) = y.v * Den(x)

\* x == y as Python evaluates it: the __eq__ of x, or the reflected __eq__
\* of y where that of x does not know the type of y
PyEq(H, C, x, y) ==
    CASE x.t = "cons" -> y.t = "cons" /\ Cons_repr(H, C, x) = Cons_repr(H, C, y)
      [] x.t = "nil" -> y.t = "nil"
      [] x.t = "none" -> y.t = "none"
      [] x.t = "sym" -> y.t = "sym" /\ x.v = y.v
      [] x.t \in {"str", "char"} -> y.t \in {"str", "char"} /\ x.v = y.v
      [] x.t = "arr" -> y.t = "arr" /\ x.v = y.v
      [] IsNum(x) -> \/ IsNum(y) /\ NumEq(x, y)
                     \/ y.t = "complex" /\ NumEq(Re(C, y), x) /\ Im(C, y).v = 0
      [] x.t = "complex" -> \/ /\ y.t = "complex"
                               /\ NumEq(Re(C, x), Re(C, y))
                               /\ NumEq(Im(C, x), Im(C, y))
                            \/ IsNum(y) /\ NumEq(Re(C, x), y) /\ Im(C, x).v = 0

(***************************************************************************)
(* Reachability in a heap (used to state properties, not by the library).  *)
(***************************************************************************)
\* the Cons cells a value refers to directly
ValCells(x) == IF consp(x) THEN {x.v} ELSE {}
CdrSucc(H, i) == ValCells(H.cells[i].cdr)
Succ(H, i) == ValCells(H.cells[i].car) \cup ValCells(H.cells[i].cdr)

RECURSIVE CdrClosure(_, _)
CdrClosure(H, X) ==
    LET Y == X \cup UNION {CdrSucc(H, i) : i \in X}
    IN IF Y = X THEN X ELSE CdrClosure(H, Y)

RECURSIVE Closure(_, _)
Closure(H, X) ==
    LET Y == X \cup UNION {Succ(H, i) : i \in X}
    IN IF Y = X THEN X ELSE Closure(H, Y)

\* cell i can be reached from itself through car and cdr links
OnCycle(H, i) == i \in Closure(H, Succ(H, i))
\* cell i can be reached from itself through cdr links alone
OnCdrCycle(H, i) == i \in CdrClosure(H, CdrSucc(H, i))
\* some cell reachable from Cons c lies on a cycle
HasTrueCycle(H, c) == \E i \in Closure(H, {c}) : OnCycle(H, i)
\* the number of car and cdr fields of cells reachable from c that refer to cell j
InDegree(H, c, j) ==
    Cardinality({i \in Closure(H, {c}) : H.cells[i].car = ConsRef(j)})
    + Cardinality({i \in Closure(H, {c}) : H.cells[i].cdr = ConsRef(j)})
\* some cell is reachable from c by more than one path
HasSharing(H, c) == \E j \in Closure(H, {c}) : InDegree(H, c, j) >= 2

\* the objects (Cons or Array) a Cons or Array object refers to directly
IsRef(x) == x.t \in {"cons", "arr"}
RefSucc(H, x) ==
    IF consp(x) THEN {y \in {car(H, x), cdr(H, x)} : IsRef(y)}
    ELSE {y \in {H.arrays[x.v].value} : IsRef(y)}

RECURSIVE RefClosure(_, _)
RefClosure(H, X) ==
    LET Y == X \cup UNION {RefSucc(H, x) : x \in X}
    IN IF Y = X THEN X ELSE RefClosure(H, Y)

\* some object reachable from x is reachable from itself through car, cdr or
\* Array payload links
IsCyclic(H, x) ==
    IsRef(x) /\ \E y \in RefClosure(H, {x}) : y \in RefClosure(H, RefSucc(H, y))

\* the cells of the cdr chain of c in walking order, up to the first revisit
RECURSIVE CdrChain(_, _, _)
CdrChain(H, x, seen) ==
    IF consp(x) /\ x.v \notin seen
    THEN <<x.v>> \o CdrChain(H, H.cells[x.v].cdr, seen \cup {x.v})
    ELSE <<>>

(***************************************************************************)
(* The class Nil and its metaclass _ReadOnlyClassVarMeta.  A state of the  *)
(* class is its class __dict__ cd and the instance __dict__ of each object *)
(* made, in the order of making.                                           *)
(***************************************************************************)
\* an empty __dict__
NoDict == [n \in {} |-> NIL]
\* the k-th object made by super().__new__(self) in Nil.__new__
NilObj(k) == [t |-> "nilobj", v |-> k, w |-> 0]
\* the class as the class body leaves it
NilClassBody ==
    [cd |-> [n \in {"_Nil__singleinstance", "car", "cdr"} |-> None], objs |-> <<>>]

\* Nil.name = value
Meta_setattr(st, name, value) ==
    IF name \notin DOMAIN st.cd THEN [st |-> st, err |-> "PermissionError"]
    ELSE IF st.cd[name] # None THEN [st |-> st, err |-> "PermissionError"]
    ELSE [st |-> [st EXCEPT !.cd[name] = value], err |-> ""]
\* del Nil.name
Meta_delattr(st, name) ==
    IF name \notin DOMAIN st.cd THEN [st |-> st, err |-> "AttributeError"]
    ELSE [st |-> st, err |-> "PermissionError"]

\* the three assignments of Nil.__new__ for the new object o
Nil_new_assign(st, o) ==
    Meta_setattr(Meta_setattr(Meta_setattr(st, "_Nil__singleinstance", o).st,
                              "car", o).st,
                 "cdr", o).st
\* Nil(): the class afterwards and the object returned
Nil_new(st) ==
    IF st.cd["_Nil__singleinstance"] = None
    THEN [st |-> Nil_new_assign([st EXCEPT !.objs = Append(@, NoDict)], NilObj(Len(st.objs) + 1)),
          val |-> Nil_new_assign([st EXCEPT !.objs = Append(@, NoDict)],
                                 NilObj(Len(st.objs) + 1)).cd["_Nil__singleinstance"]]
    ELSE [st |-> st, val |-> st.cd["_Nil__singleinstance"]]

\* a variant that lets car and cdr into the instance __dict__
Nil_setattr_mut(st, o, name, value) ==
    [st |-> [st EXCEPT !.objs[o.v] =
                [n \in DOMAIN @ \cup {name} |-> IF n = name THEN value ELSE @[n]]],
     err |-> ""]
\* o.name = value for a Nil object o
Nil_setattr(st, o, name, value) ==
    IF name \in {"car", "cdr"} THEN [st |-> st, err |-> "PermissionError"]
    ELSE [st |-> [st EXCEPT !.objs[o.v] =
                     [n \in DOMAIN @ \cup {name} |-> IF n = name THEN value ELSE @[n]]],
          err |-> ""]
\* del o.name: object.__delattr__ looks in the instance __dict__ only
Nil_delattr(st, o, name) ==
    IF name \in DOMAIN st.objs[o.v]
    THEN [st |-> [st EXCEPT !.objs[o.v] = [n \in DOMAIN @ \ {name} |-> @[n]]], err |-> ""]
    ELSE [st |-> st, err |-> "AttributeError"]
\* o.name: the instance __dict__ comes before the class __dict__
Nil_getattr(st, o, name) ==
    IF name \in DOMAIN st.objs[o.v] THEN st.objs[o.v][name] ELSE st.cd[name]

\* the class after the module ran _NIL = Nil() and NIL = Nil()
NilImported == Nil_new(Nil_new(NilClassBody).st).st
\* the module variable NIL
NIL_object == Nil_new(Nil_new(NilClassBody).st).val

\* SxprStringReader(text)
SxprStringReader(text) == [st |-> StringStreamer(text), calls |-> 0]

\* no file has been opened
NoFile == [kind |-> "missing", text |-> <<>>, fd |-> "unopened", self |-> NIL,
           block |-> "before", calls |-> 0]
\* no thread has been started
NoThreads == [guarded |-> FALSE, lock |-> 0, th |-> <<>>]

OtherStateInit ==
    /\ objects = <<>>
    /\ nil = NilImported
    /\ reader = SxprStringReader(<<>>)
    /\ file = NoFile
    /\ iterators = <<>>
    /\ threads = NoThreads

(***************************************************************************)
(* Constructors and attribute assignment.                                  *)
(***************************************************************************)
Cons_init(a, d) ==
    /\ Len(cells) < MaxCells
    /\ nops < MaxOps
    /\ cells' = Append(cells, [car |-> a, cdr |-> d])
    /\ nops' = nops + 1
    /\ ret' = NoRet
    /\ UNCHANGED <<arrays, flags, OutsideHeap>>

Cons_setattr(c, name, x) ==
    /\ nops < MaxOps
    /\ cells' = [cells EXCEPT ![c] = IF name = "car" THEN [@ EXCEPT !.car = x]
                                                     ELSE [@ EXCEPT !.cdr = x]]
    /\ nops' = nops + 1
    /\ ret' = NoRet
    /\ UNCHANGED <<arrays, flags, OutsideHeap>>

\* Array(dim, value) with a list value
Array_init(dim, value) ==
    /\ Len(arrays) < MaxArrays
    /\ nops < MaxOps
    /\ listp(value)
    /\ arrays' = Append(arrays, [dim |-> dim, value |-> value])
    /\ nops' = nops + 1
    /\ ret' = NoRet
    /\ UNCHANGED <<cells, flags, OutsideHeap>>

\* a.value = x with a list x
Array_setattr(a, x) ==
    /\ nops < MaxOps
    /\ listp(x)
    /\ arrays' = [arrays EXCEPT ![a].value = x]
    /\ nops' = nops + 1
    /\ ret' = NoRet
    /\ UNCHANGED <<cells, flags, OutsideHeap>>

CallStr(x) ==
    /\ ret' = [op |-> "str", arg |-> x, val |-> Cons_str(Heap, x, flags)]
    /\ UNCHANGED <<cells, arrays, nops, flags, OutsideHeap>>

CallSx2py(c) ==
    /\ LET r == sx2py(Heap, <<>>, ConsRef(c), TRUE)
       IN ret' = [op |-> "sx2py", arg |-> c, err |-> r.st.err, val |-> r.val,
                  lists |-> r.st.lists, listdic |-> r.st.listdic]
    /\ UNCHANGED <<cells, arrays, nops, flags, OutsideHeap>>

CallLen(c) ==
    /\ ret' = [op |-> "len", arg |-> c, val |-> Cons_len(Heap, ConsRef(c))]
    /\ UNCHANGED <<cells, arrays, nops, flags, OutsideHeap>>

(***************************************************************************)
(* SpecCons: Cons structures of integers built by Cons(car, cdr) and by    *)
(* assignment to car and cdr, then measured, printed and converted.        *)
(***************************************************************************)
ConsRefs == {ConsRef(i) : i \in 1..Len(cells)}
\* the values given as car: two integers, or a Cons (a sub-list)
CarValues == {IntV(1), IntV(2)} \cup ConsRefs
\* the values given as cdr: NIL (proper list), an integer (dotted), or a Cons
CdrValues == {NIL, IntV(2)} \cup ConsRefs

InitCons ==
    /\ NoAtoms
    /\ OtherStateInit
    /\ cells = <<>>
    /\ arrays = <<>>
    /\ pylists = <<>>
    /\ nops = 0
    /\ flags = DefaultFlags
    /\ ret = NoRet

NextCons ==
    \/ \E a \in CarValues, d \in CdrValues : Cons_init(a, d)
    \/ \E c \in 1..Len(cells), x \in CarValues : Cons_setattr(c, "car", x)
    \/ \E c \in 1..Len(cells), x \in CdrValues : Cons_setattr(c, "cdr", x)
    \/ \E c \in 1..Len(cells) : CallLen(c)
    \/ \E c \in 1..Len(cells) : CallStr(ConsRef(c))
    \/ \E c \in 1..Len(cells) : CallSx2py(c)

SpecCons == InitCons /\ [][NextCons]_vars

(***************************************************************************)
(* C3: len(c) terminates and equals the number of distinct Cons cells      *)
(* reachable from c by following cdr, for proper, dotted and cyclic c.     *)
(***************************************************************************)
C3_LenCountsDistinctCells ==
    ret.op = "len" =>
        /\ ret.val # -1
        /\ ret.val = Cardinality(CdrClosure(Heap, {ret.arg}))

\* len was taken of a two-cell chain whose last cdr points back to its second cell
C3_Witness ==
    /\ ret.op = "len"
    /\ ret.val = 2
    /\ OnCdrCycle(Heap, ret.arg) = FALSE
    /\ \E i \in CdrClosure(Heap, {ret.arg}) : OnCdrCycle(Heap, i)

(***************************************************************************)
(* C5: str of a list of k distinct cells with atom cars whose last cdr     *)
(* points back into the chain is "(" car_1 " " ... car_k " ...)": each car *)
(* once, in order, then the marker, where the walk stops.                  *)
(***************************************************************************)
RECURSIVE CarsThenSpace(_, _)
CarsThenSpace(H, chain) ==
    IF chain = <<>> THEN <<>>
    ELSE Atom_str(H, H.cells[Head(chain)].car, 1, flags).s \o <<" ">>
         \o CarsThenSpace(H, Tail(chain))

\* the cdr chain of cell c holds atoms only and its last cdr refers to one of its cells
IsCdrCyclicListOfAtoms(H, c) ==
    LET chain == CdrChain(H, ConsRef(c), {}) IN
    /\ \A k \in 1..Len(chain) : ~consp(H.cells[chain[k]].car)
    /\ consp(H.cells[chain[Len(chain)]].cdr)

C7_TrueCycleRaises ==
    (ret.op = "sx2py" /\ HasTrueCycle(Heap, ret.arg)) => ret.err = Unresolvable

(***************************************************************************)
(* C8: sx2py of a finite acyclic structure in which some Cons is reachable *)
(* by more than one path succeeds, and every car that holds a shared       *)
(* sub-list is converted to the one host list made for that sub-list.      *)
(***************************************************************************)
\* the host list made for head h has, at each position whose car is a Cons, the
\* host list object recorded for that Cons
SharedConvertedOnce(H, r) ==
    \A h \in DOMAIN r.listdic :
        LET chain == CdrChain(H, ConsRef(h), {}) IN
        \A k \in 1..Len(chain) :
            consp(H.cells[chain[k]].car) =>
                /\ H.cells[chain[k]].car.v \in DOMAIN r.listdic
                /\ k <= Len(r.lists[r.listdic[h]])
                /\ r.lists[r.listdic[h]][k] = ListRef(r.listdic[H.cells[chain[k]].car.v])

C8_SharedSublistConvertedOnce ==
    (ret.op = "sx2py" /\ ~HasTrueCycle(Heap, ret.arg) /\ HasSharing(Heap, ret.arg)) =>
        /\ ret.err = ""
        /\ SharedConvertedOnce(Heap, ret)

(***************************************************************************)
(* SpecHost: nested host lists built from list displays, converted to      *)
(* S-expressions and back under each setting of sxprlib_ignoreCase.        *)
(***************************************************************************)
HostAtoms == {IntV(1), Frac(2, 1), PyStr(<<"A">>)}
HostValues == HostAtoms \cup {ListRef(i) : i \in 1..Len(pylists)}
PyListLens == 0..2

\* the host evaluates a list display [e1, ..., en]
List_new(elems) ==
    /\ Len(pylists) < MaxLists
    /\ pylists' = Append(pylists, elems)
    /\ ret' = NoRet
    /\ UNCHANGED <<nops, flags, OutsideHost>>

\* sx2py(py2sx(l)); the Cons objects made on the way are garbage afterwards
CallSx2pyPy2sx(l) ==
    /\ LET p == py2sx(pylists, <<>>, ListRef(l), TRUE, flags)
           H == [cells |-> p.st.cells, arrays |-> <<>>]
           r == sx2py(H, pylists, p.val, TRUE)
       IN ret' = [op |-> "sx2py(py2sx)", arg |-> l,
                  err |-> IF p.st.err # "" THEN p.st.err ELSE r.st.err,
                  sx |-> p.val, cells |-> p.st.cells,
                  val |-> r.val, lists |-> r.st.lists]
    /\ UNCHANGED <<pylists, nops, flags, OutsideHost>>

InitHost ==
    /\ NoAtoms
    /\ OtherStateInit
    /\ cells = <<>>
    /\ arrays = <<>>
    /\ pylists = <<>>
    /\ nops = 0
    /\ flags \in {[DefaultFlags EXCEPT !.ignoreCase = b] : b \in BOOLEAN}
    /\ ret = NoRet

NextHost ==
    \/ \E n \in PyListLens : \E elems \in [1..n -> HostValues] : List_new(elems)
    \/ \E l \in 1..Len(pylists) : CallSx2pyPy2sx(l)

SpecHost == InitHost /\ [][NextHost]_vars

\* x == y on host values: lists compare element by element, numbers by value,
\* strings by text (fold lowers the strings of x first)
RECURSIVE HostEq(_, _, _, _, _)
HostEq(L, x, y, fold, fuel) ==
    IF fuel = 0 THEN FALSE
    ELSE IF x.t = "list" /\ y.t = "list"
    THEN /\ Len(L[x.v]) = Len(L[y.v])
         /\ \A k \in 1..Len(L[x.v]) : HostEq(L, L[x.v][k], L[y.v][k], fold, fuel - 1)
    ELSE IF IsNum(x) /\ IsNum(y) THEN x.v * Den(y) = y.v * Den(x)
    ELSE IF x.t = "pystr" /\ y.t = "pystr"
    THEN (IF fold THEN Lower(x.v) ELSE x.v) = y.v
    ELSE FALSE

(***************************************************************************)
(* C6: sx2py(py2sx(l)) == l for every finite nested host list l of ints,   *)
(* rationals and non-empty strings, also when a sub-list occurs twice.     *)
(***************************************************************************)
C6_RoundTripIsIdentity ==
    ret.op = "sx2py(py2sx)" =>
        /\ ret.err = ""
        /\ HostEq(ret.lists, ListRef(ret.arg), ret.val, FALSE, PyFuel(ret.lists))

(***************************************************************************)
(* C6 as amended: the round trip gives back l while sxprlib_ignoreCase is  *)
(* off; while it is on, it gives back l with every string lower-cased.     *)
(***************************************************************************)
C6_RoundTripUpToCase ==
    ret.op = "sx2py(py2sx)" =>
        /\ ret.err = ""
        /\ HostEq(ret.lists, ListRef(ret.arg), ret.val, flags.ignoreCase, PyFuel(ret.lists))

\* a list that holds the same non-empty sub-list twice went through the round trip
C6_Witness ==
    /\ ret.op = "sx2py(py2sx)"
    /\ \E i \in 1..Len(pylists) :
           /\ pylists[i] # <<>>
           /\ pylists[ret.arg] = <<ListRef(i), ListRef(i)>>
    /\ ret.err = ""

(***************************************************************************)
(* SpecIntern: Symbol, Char and Complex objects are constructed, the last  *)
(* reference to one is dropped, and the collector reclaims it, at which    *)
(* point its entry leaves the WeakValueDictionary.                         *)
(***************************************************************************)
SymbolInputs == {<<"a">>, <<"A">>, <<>>}
CharInputs ==
    {<<"a">>, <<"#", "\\", "a">>, <<"#", "\\", "x", "6", "1">>,
     <<"s", "p", "a", "c", "e">>, <<" ">>, <<"a", "b">>}
ComplexReals == {IntV(1), [t |-> "float", v |-> 1, w |-> 1]}
ComplexImags == {IntV(0), IntV(1), Frac(2, 1)}

\* the objects of class cls with key v that the program still refers to
Held(A, cls, v) ==
    {i \in 1..Len(A) : A[i].cls = cls /\ A[i].value = v /\ A[i].refs = "held"}

CallSymbol(value) ==
    LET r == Symbol_new([atoms |-> atoms, table |-> SymbolInstance], value, flags)
    IN /\ Len(r.st.atoms) <= MaxAtoms
       /\ atoms' = r.st.atoms
       /\ SymbolInstance' = r.st.table
       /\ ret' = [op |-> "Symbol", val |-> r.val,
                  prior |-> Held(atoms, "Symbol", Symbol_value(value, flags))]
       /\ UNCHANGED <<CharInstance, ComplexInstance, nops, flags, OutsideInterned>>

CallChar(value) ==
    LET r == Char_new([atoms |-> atoms, table |-> CharInstance], value)
    IN /\ Len(r.st.atoms) <= MaxAtoms
       /\ atoms' = r.st.atoms
       /\ CharInstance' = r.st.table
       /\ ret' = [op |-> "Char", val |-> r.val,
                  prior |-> Held(atoms, "Char", Char_value(value))]
       /\ UNCHANGED <<SymbolInstance, ComplexInstance, nops, flags, OutsideInterned>>

CallComplex(real, imag) ==
    LET r == Complex_new([atoms |-> atoms, table |-> ComplexInstance], real, imag)
    IN /\ Len(r.st.atoms) <= MaxAtoms
       /\ atoms' = r.st.atoms
       /\ ComplexInstance' = r.st.table
       /\ ret' = [op |-> "Complex", val |-> r.val,
                  prior |-> IF complexp(r.val)
                            THEN Held(atoms, "Complex", r.st.atoms[r.val.v].value)
                            ELSE {}]
       /\ UNCHANGED <<SymbolInstance, CharInstance, nops, flags, OutsideInterned>>

\* the program drops its last reference to object i
Release(i) ==
    /\ atoms[i].refs = "held"
    /\ atoms' = [atoms EXCEPT ![i].refs = "dropped"]
    /\ ret' = NoRet
    /\ UNCHANGED <<SymbolInstance, CharInstance, ComplexInstance, nops, flags,
                   OutsideInterned>>

\* a table without the entries whose value is object i
Discard(table, i) == [k \in {x \in DOMAIN table : table[x] # i} |-> table[k]]

\* the collector frees object i; the weak reference callback removes its entry
Reclaim(i) ==
    /\ atoms[i].refs = "dropped"
    /\ atoms' = [atoms EXCEPT ![i].refs = "reclaimed"]
    /\ SymbolInstance' = Discard(SymbolInstance, i)
    /\ CharInstance' = Discard(CharInstance, i)
    /\ ComplexInstance' = Discard(ComplexInstance, i)
    /\ UNCHANGED <<nops, flags, ret, OutsideInterned>>

\* the program assigns sxprlib_ignoreCase
SetIgnoreCase(b) ==
    /\ flags.ignoreCase # b
    /\ flags' = [flags EXCEPT !.ignoreCase = b]
    /\ ret' = NoRet
    /\ UNCHANGED <<nops, Interned, OutsideInterned>>

InitIntern ==
    /\ NoAtoms
    /\ OtherStateInit
    /\ cells = <<>>
    /\ arrays = <<>>
    /\ pylists = <<>>
    /\ nops = 0
    /\ flags = DefaultFlags
    /\ ret = NoRet

NextIntern ==
    \/ \E value \in SymbolInputs : CallSymbol(value)
    \/ \E value \in CharInputs : CallChar(value)
    \/ \E real \in ComplexReals, imag \in ComplexImags : CallComplex(real, imag)
    \/ \E i \in 1..Len(atoms) : Release(i)
    \/ \E i \in 1..Len(atoms) : Reclaim(i)
    \/ \E b \in BOOLEAN : SetIgnoreCase(b)

SpecIntern == InitIntern /\ [][NextIntern]_vars

\* object i has not been reclaimed
Live(i) == atoms[i].refs # "reclaimed"

(***************************************************************************)
(* C2: whatever Symbol, Char and Complex constructions and reclamations    *)
(* have happened, two live atoms of one type with the same canonical key   *)
(* are one object, and constructing an atom equal to one that is still     *)
(* held returns that object.                                               *)
(***************************************************************************)
C2_InternUniqueness ==
    /\ \A i, j \in 1..Len(atoms) :
           (Live(i) /\ Live(j) /\ atoms[i].cls = atoms[j].cls
            /\ atoms[i].value = atoms[j].value) => i = j
    /\ (ret.op \in {"Symbol", "Char", "Complex"} /\ ret.prior # {})
           => ret.val.t \in {"atom", "complex"} /\ ret.val.v \in ret.prior

\* an atom was reclaimed, an equal one was built afresh, and a further
\* construction with that key returned the one still held
C2_Witness ==
    /\ ret.op \in {"Symbol", "Char", "Complex"}
    /\ ret.prior # {}
    /\ ret.val.v \in ret.prior
    /\ \E i \in 1..Len(atoms) :
           /\ ~Live(i)
           /\ atoms[i].cls = atoms[ret.val.v].cls
           /\ atoms[i].value = atoms[ret.val.v].value

(***************************************************************************)
(* SpecComplex: Complex objects are constructed and combined with exact    *)
(* reals and with each other by neg, conjugate, +, -, *, /.                *)
(***************************************************************************)
ExactReals == {IntV(2), Frac(1, 2)}
NewParts == {IntV(1), Frac(2, 1)}

IsExact(x) == x.t \in {"int", "frac"}
\* the Complex objects whose parts are int or Fraction
ExactComplexes ==
    {CRef(i) : i \in {j \in 1..Len(atoms) : /\ atoms[j].cls = "Complex"
                                            /\ IsExact(atoms[j].real)
                                            /\ IsExact(atoms[j].imag)}}

\* <<real, imag>> of a value
Parts(A, x) == IF complexp(x) THEN <<A[x.v].real, A[x.v].imag>> ELSE <<x, IntV(0)>>

\* host ints have no width; the model builds no Complex with a part whose
\* numerator or denominator exceeds MaxPart
Small(x) == Abs(x.v) <= MaxPart /\ Den(x) <= MaxPart
SmallParts(A) ==
    \A i \in 1..Len(A) : A[i].cls = "Complex" => Small(A[i].real) /\ Small(A[i].imag)

\* the state after an operation on self and v that returned r
Returned(op, self, v, r) ==
    /\ Len(r.st.atoms) <= MaxAtoms
    /\ SmallParts(r.st.atoms)
    /\ atoms' = r.st.atoms
    /\ ComplexInstance' = r.st.table
    /\ ret' = [op |-> op, self |-> Parts(atoms, self), v |-> Parts(atoms, v),
               val |-> r.val,
               parts |-> IF IsError(r.val) THEN <<>> ELSE Parts(r.st.atoms, r.val)]
    /\ UNCHANGED <<SymbolInstance, CharInstance, nops, flags, OutsideInterned>>

ComplexState == [atoms |-> atoms, table |-> ComplexInstance]

CallNeg(self) == Returned("neg", self, self, Complex_neg(ComplexState, self))
CallConjugate(self) ==
    Returned("conjugate", self, self, Complex_conjugate(ComplexState, self))
CallAdd(self, v) == Returned("add", self, v, Complex_add(ComplexState, self, v))
CallSub(self, v) == Returned("sub", self, v, Complex_sub(ComplexState, self, v))
CallRsub(self, v) == Returned("rsub", self, v, Complex_rsub(ComplexState, self, v))
CallMul(self, v) == Returned("mul", self, v, Complex_mul(ComplexState, self, v))
CallTruediv(self, v) ==
    Returned("truediv", self, v, Complex_truediv(ComplexState, self, v))
CallRtruediv(self, v) ==
    Returned("rtruediv", self, v, Complex_rtruediv(ComplexState, self, v))

InitComplex ==
    /\ NoAtoms
    /\ OtherStateInit
    /\ cells = <<>>
    /\ arrays = <<>>
    /\ pylists = <<>>
    /\ nops = 0
    /\ flags = DefaultFlags
    /\ ret = NoRet

NextComplex ==
    \/ \E real \in NewParts, imag \in NewParts : CallComplex(real, imag)
    \/ \E self \in ExactComplexes : CallNeg(self)
    \/ \E self \in ExactComplexes : CallConjugate(self)
    \/ \E self \in ExactComplexes, v \in ExactReals \cup ExactComplexes : CallAdd(self, v)
    \/ \E self \in ExactComplexes, v \in ExactReals \cup ExactComplexes : CallSub(self, v)
    \/ \E self \in ExactComplexes, v \in ExactReals : CallRsub(self, v)
    \/ \E self \in ExactComplexes, v \in ExactReals \cup ExactComplexes : CallMul(self, v)
    \/ \E self \in ExactComplexes, v \in ExactReals \cup ExactComplexes : CallTruediv(self, v)
    \/ \E self \in ExactComplexes, v \in ExactReals : CallRtruediv(self, v)

SpecComplex == InitComplex /\ [][NextComplex]_vars

ArithOps == {"neg", "conjugate", "add", "sub", "rsub", "mul", "truediv", "rtruediv"}

(***************************************************************************)
(* C9: after any Complex constructions and arithmetic on exact operands,   *)
(* no Complex object has imag = 0 or a part that is a Fraction with        *)
(* denominator 1; such a result is returned as the real part alone, and a  *)
(* Fraction with denominator 1 as the int.                                 *)
(***************************************************************************)
C9_NoDegenerateComplex ==
    /\ \A i \in 1..Len(atoms) :
           atoms[i].cls = "Complex" =>
               /\ atoms[i].imag.v # 0
               /\ ~(atoms[i].real.t = "frac" /\ atoms[i].real.w = 1)
               /\ ~(atoms[i].imag.t = "frac" /\ atoms[i].imag.w = 1)
    /\ (ret.op \in ArithOps \cup {"Complex"} /\ IsNum(ret.val))
           => ~(ret.val.t = "frac" /\ ret.val.w = 1)

\* an operation on a Complex with a Fraction real part returned an int
C9_Witness ==
    /\ ret.op \in ArithOps
    /\ ret.self[1].t = "frac"
    /\ ret.val.t = "int"

\* x as a Fraction
AsFraction(x) == [t |-> "frac", v |-> Lowest(x.v, Den(x))[1], w |-> Lowest(x.v, Den(x))[2]]
\* <<real, imag>> of the product of p and q, computed in Fractions
ExactProduct(p, q) ==
    <<num_sub(num_mul(AsFraction(p[1]), AsFraction(q[1])),
              num_mul(AsFraction(p[2]), AsFraction(q[2]))),
      num_add(num_mul(AsFraction(p[1]), AsFraction(q[2])),
              num_mul(AsFraction(p[2]), AsFraction(q[1])))>>
SameNumber(p, q) == AsFraction(p[1]) = AsFraction(q[1]) /\ AsFraction(p[2]) = AsFraction(q[2])

(***************************************************************************)
(* C10: dividing a Complex with int or Fraction parts by a non-zero int or *)
(* Fraction, or by such a Complex, or dividing such a real by it, gives a  *)
(* result whose parts are int or Fraction and equal the exact quotient.    *)
(***************************************************************************)
C10_DivisionStaysExact ==
    /\ (ret.op = "truediv" /\ (ret.v[1].v # 0 \/ ret.v[2].v # 0))
           => /\ ~IsError(ret.val)
              /\ IsExact(ret.parts[1]) /\ IsExact(ret.parts[2])
              /\ SameNumber(ExactProduct(ret.parts, ret.v), ret.self)
    /\ ret.op = "rtruediv"
           => /\ ~IsError(ret.val)
              /\ IsExact(ret.parts[1]) /\ IsExact(ret.parts[2])
              /\ SameNumber(ExactProduct(ret.parts, ret.self), ret.v)

(***************************************************************************)
(* SpecStr: structures that also hold Arrays and (quote x) forms, printed  *)
(* under each setting of enableQuote / enableFuncRef.                      *)
(***************************************************************************)
ArrRefs == {ArrRef(i) : i \in 1..Len(arrays)}
StrCarValues == {IntV(1), SymQuote} \cup ConsRefs \cup ArrRefs
StrCdrValues == {NIL} \cup ConsRefs
ArrayDims == {1, 2}

\* the embedding program sets the module-level flags before it prints
InitStr ==
    /\ NoAtoms
    /\ OtherStateInit
    /\ cells = <<>>
    /\ arrays = <<>>
    /\ pylists = <<>>
    /\ nops = 0
    /\ flags \in {[DefaultFlags EXCEPT !.enableQuote = q, !.enableFuncRef = q] : q \in BOOLEAN}
    /\ ret = NoRet

NextStr ==
    \/ \E a \in StrCarValues, d \in StrCdrValues : Cons_init(a, d)
    \/ \E c \in 1..Len(cells), x \in StrCarValues : Cons_setattr(c, "car", x)
    \/ \E c \in 1..Len(cells), x \in StrCdrValues : Cons_setattr(c, "cdr", x)
    \/ \E dim \in ArrayDims, x \in StrCdrValues : Array_init(dim, x)
    \/ \E a \in 1..Len(arrays), x \in StrCdrValues : Array_setattr(a, x)
    \/ \E x \in ConsRefs \cup ArrRefs : CallStr(x)

SpecStr == InitStr /\ [][NextStr]_vars

(***************************************************************************)
(* C4: str() of any cyclic structure terminates, whatever the cycle passes *)
(* through: cdr, car, an Array payload, or a (quote x) form while          *)
(* enableQuote is set.                                                     *)
(***************************************************************************)
C4_StrOfCyclicTerminates ==
    (ret.op = "str" /\ IsCyclic(Heap, ret.arg)) => ret.val.ok

(***************************************************************************)
(* SpecParse: values built from atoms, Cons and Array objects, then        *)
(* printed with str() and read back with sxparse() under the same flags.   *)
(***************************************************************************)
\* every dialect extension switched on, case kept
DialectFlags == [f \in DOMAIN DefaultFlags |-> f # "ignoreCase"]
\* an integer, a plain symbol, a symbol spelled like an integer, a string
ParseAtoms == {IntV(1), Sym(<<"a">>), Sym(<<"1">>), StringV(<<"b">>)}
ParseCarValues == ParseAtoms \cup ConsRefs \cup ArrRefs
ParseCdrValues == {NIL, IntV(2)} \cup ConsRefs
ParseValues == ParseAtoms \cup {NIL} \cup ConsRefs \cup ArrRefs

\* what sxparse(text) == x gave, r being the result of the parse
Compared(x, text, r) ==
    IF IsException(r.val)
    THEN [op |-> "sxparse(str)", arg |-> x, text |-> text,
          err |-> IF IsError(r.val) THEN "ZeroDivisionError" ELSE r.val.v, eq |-> FALSE]
    ELSE [op |-> "sxparse(str)", arg |-> x, text |-> text, err |-> "",
          eq |-> PyEq(r.P.H, r.P.C, r.val, x)]
\* sxparse(text) == x for the result text of str(x)
ParsedBack(x, text) ==
    IF ~text.ok
    THEN [op |-> "sxparse(str)", arg |-> x, text |-> <<>>, err |-> RecursionError, eq |-> FALSE]
    ELSE Compared(x, text.s,
                  sxparse(Heap, [atoms |-> atoms, table |-> ComplexInstance], text.s, flags))

\* sxparse(str(x)) == x.  The objects the parse creates are dropped when the
\* comparison returns, so the heap and the intern tables are as before.
CallSxparseStr(x) ==
    /\ ret' = ParsedBack(x, Cons_str(Heap, x, flags))
    /\ UNCHANGED <<cells, arrays, nops, flags, OutsideHeap>>

\* the embedding program sets the module-level flags before it builds values
InitParse ==
    /\ NoAtoms
    /\ OtherStateInit
    /\ cells = <<>>
    /\ arrays = <<>>
    /\ pylists = <<>>
    /\ nops = 0
    /\ flags \in {DefaultFlags, DialectFlags}
    /\ ret = NoRet

NextParse ==
    \/ \E a \in ParseCarValues, d \in ParseCdrValues : Cons_init(a, d)
    \/ \E c \in 1..Len(cells), x \in ParseCarValues : Cons_setattr(c, "car", x)
    \/ \E c \in 1..Len(cells), x \in ParseCdrValues : Cons_setattr(c, "cdr", x)
    \/ \E dim \in ArrayDims, x \in ParseCdrValues \ {IntV(2)} : Array_init(dim, x)
    \/ \E a \in 1..Len(arrays), x \in ParseCdrValues \ {IntV(2)} : Array_setattr(a, x)
    \/ \E x \in ParseValues : CallSxparseStr(x)

SpecParse == InitParse /\ [][NextParse]_vars

(***************************************************************************)
(* C1: for every finite acyclic value v (atoms, proper and dotted lists,   *)
(* arrays, structures in which one Cons is reachable by several paths),    *)
(* sxparse(str(v)) == v under the same dialect flags.  (The two exceptions *)
(* of the claim, a Rational with denominator 1 and a Complex with zero     *)
(* imaginary part, are not among the values built here.)                   *)
(***************************************************************************)
C1_PrintParseRoundTrip ==
    (ret.op = "sxparse(str)" /\ ~IsCyclic(Heap, ret.arg)) => (ret.err = "" /\ ret.eq)

(***************************************************************************)
(* Indexed read and write of a Cons.                                       *)
(***************************************************************************)
IndexError == Exc("IndexError")

\* the while loop and the return of Cons.__getitem__: c is the value walked
\* to and m the number of steps left
RECURSIVE Getitem_loop(_, _, _)
Getitem_loop(H, c, m) ==
    IF m > 0
    THEN IF ~(consp(c) \/ null(c)) THEN IndexError
         ELSE Getitem_loop(H, IF consp(c) THEN cdr(H, c) ELSE NIL, m - 1)
    ELSE IF ~consp(c) THEN c ELSE car(H, c)

\* self[n] for an integer n: the value, or the exception raised
Cons_getitem(H, self, n) ==
    IF n < 0 THEN IndexError ELSE Getitem_loop(H, self, n)

\* the while loop and the assignment of Cons.__setitem__: p is the cell
\* before c; gives the heap afterwards and the exception raised, if any
RECURSIVE Setitem_loop(_, _, _, _, _)
Setitem_loop(H, c, p, m, x) ==
    IF m > 0
    THEN IF ~consp(c) THEN [H |-> H, err |-> "IndexError"]
         ELSE Setitem_loop(H, cdr(H, c), c, m - 1, x)
    ELSE IF ~consp(c)
    THEN IF null(p) THEN [H |-> H, err |-> "PermissionError"]
         ELSE [H |-> [H EXCEPT !.cells[p.v].cdr = x], err |-> ""]
    ELSE [H |-> [H EXCEPT !.cells[c.v].car = x], err |-> ""]

\* a variant without the test n < 0
Cons_setitem_mut(H, self, n, x) == Setitem_loop(H, self, NIL, n, x)
\* self[n] = x for an integer n
Cons_setitem(H, self, n, x) ==
    IF n < 0 THEN [H |-> H, err |-> "IndexError"] ELSE Setitem_loop(H, self, NIL, n, x)

CallGetitem(c, n) ==
    /\ ret' = [op |-> "getitem", arg |-> c, n |-> n, val |-> Cons_getitem(Heap, ConsRef(c), n)]
    /\ UNCHANGED <<cells, arrays, nops, flags, OutsideHeap>>

\* self[n] = x; before is the heap as it was, kept to state what changed
CallSetitem(c, n, x) ==
    /\ nops < MaxOps
    /\ cells' = Cons_setitem(Heap, ConsRef(c), n, x).H.cells
    /\ nops' = nops + 1
    /\ ret' = [op |-> "setitem", arg |-> c, n |-> n, x |-> x, before |-> Heap,
               err |-> Cons_setitem(Heap, ConsRef(c), n, x).err]
    /\ UNCHANGED <<arrays, flags, OutsideHeap>>

(***************************************************************************)
(* SpecIndex: proper, dotted and cyclic chains of integers and sub-lists   *)
(* built by Cons(car, cdr) and assignment, then read and written by index. *)
(***************************************************************************)
MaxIndex == 3
Indices == (-1)..MaxIndex

InitIndex ==
    /\ NoAtoms
    /\ OtherStateInit
    /\ cells = <<>>
    /\ arrays = <<>>
    /\ pylists = <<>>
    /\ nops = 0
    /\ flags = DefaultFlags
    /\ ret = NoRet

NextIndex ==
    \/ \E a \in CarValues, d \in CdrValues : Cons_init(a, d)
    \/ \E c \in 1..Len(cells), x \in CdrValues : Cons_setattr(c, "cdr", x)
    \/ \E c \in 1..Len(cells), n \in Indices : CallGetitem(c, n)
    \/ \E c \in 1..Len(cells), n \in Indices, x \in CdrValues : CallSetitem(c, n, x)

SpecIndex == InitIndex /\ [][NextIndex]_vars

\* the cells of the chain of c in the heap H, and whether the chain ends in a
\* terminal value (it does not when a cdr leads back into the chain)
ChainOf(H, c) == CdrChain(H, ConsRef(c), {})
Terminated(H, c) == ~consp(H.cells[ChainOf(H, c)[Len(ChainOf(H, c))]].cdr)
Terminal(H, c) == H.cells[ChainOf(H, c)[Len(ChainOf(H, c))]].cdr

(***************************************************************************)
(* C11: c[n] on a chain of k cells with terminal value t: n < 0 raises     *)
(* IndexError; 0 <= n < k gives the car of the n-th cell; n = k gives t;   *)
(* n > k raises IndexError, for proper and dotted lists alike.             *)
(***************************************************************************)
C11_IndexedRead ==
    (ret.op = "getitem" /\ Terminated(Heap, ret.arg)) =>
        LET chain == ChainOf(Heap, ret.arg)
        IN IF ret.n < 0 \/ ret.n > Len(chain) THEN ret.val = IndexError
           ELSE IF ret.n < Len(chain) THEN ret.val = cells[chain[ret.n + 1]].car
           ELSE ret.val = Terminal(Heap, ret.arg)

(***************************************************************************)
(* C12 as stated: c[n] = x on a chain of k cells sets only the car of the  *)
(* n-th cell for 0 <= n < k and only the cdr of the last cell for n = k,   *)
(* and a following c[n] reads x; for n < 0 or n > k it raises IndexError   *)
(* and changes nothing.                                                    *)
(***************************************************************************)
WriteFrame ==
    LET chain == ChainOf(ret.before, ret.arg)
    IN IF ret.n < 0 \/ ret.n > Len(chain)
       THEN ret.err = "IndexError" /\ Heap = ret.before
       ELSE IF ret.n < Len(chain)
       THEN ret.err = "" /\ Heap = [ret.before EXCEPT !.cells[chain[ret.n + 1]].car = ret.x]
       ELSE ret.err = "" /\ Heap = [ret.before EXCEPT !.cells[chain[ret.n]].cdr = ret.x]

C12_IndexedWriteReadsBack ==
    (ret.op = "setitem" /\ Terminated(ret.before, ret.arg)) =>
        /\ WriteFrame
        /\ ret.err = "" => Cons_getitem(Heap, ConsRef(ret.arg), ret.n) = ret.x

(***************************************************************************)
(* C12 amended: as above, except that after c[k] = x with x a Cons the     *)
(* following c[k] reads the car of x (x has become the k-th cell).         *)
(***************************************************************************)
C12_IndexedWrite ==
    (ret.op = "setitem" /\ Terminated(ret.before, ret.arg)) =>
        /\ WriteFrame
        /\ ret.err = "" =>
              Cons_getitem(Heap, ConsRef(ret.arg), ret.n) =
                 IF ret.n = Len(ChainOf(ret.before, ret.arg)) /\ consp(ret.x)
                 THEN car(Heap, ret.x) ELSE ret.x

C12_Witness ==
    /\ ret.op = "setitem"
    /\ Terminated(ret.before, ret.arg)
    /\ ret.n = Len(ChainOf(ret.before, ret.arg))
    /\ consp(ret.x)
    /\ ret.err = ""
    /\ cells[ChainOf(ret.before, ret.arg)[ret.n]].cdr = ret.x

(***************************************************************************)
(* Attribute assignment and deletion.  An object is its class and its      *)
(* instance __dict__, a function from attribute names to values.           *)
(***************************************************************************)
\* object.__setattr__ and self.__dict__[name] = value
object_setattr(d, name, value) ==
    [dict |-> [n \in DOMAIN d \cup {name} |-> IF n = name THEN value ELSE d[n]],
     err |-> ""]
\* object.__delattr__
object_delattr(d, name) ==
    IF name \in DOMAIN d
    THEN [dict |-> [n \in DOMAIN d \ {name} |-> d[n]], err |-> ""]
    ELSE [dict |-> d, err |-> "AttributeError"]
Refused(d) == [dict |-> d, err |-> "PermissionError"]

Symbol_setattr(d, name, value) ==
    IF name = "value" /\ name \in DOMAIN d THEN Refused(d) ELSE object_setattr(d, name, value)
\* a variant that lets the deletion of value through
Symbol_delattr_mut(d, name) == object_delattr(d, name)
Symbol_delattr(d, name) ==
    IF name = "value" THEN Refused(d) ELSE object_delattr(d, name)
Char_setattr(d, name, value) ==
    IF name = "value" /\ name \in DOMAIN d THEN Refused(d) ELSE object_setattr(d, name, value)
Char_delattr(d, name) ==
    IF name = "value" THEN Refused(d) ELSE object_delattr(d, name)
String_setattr(d, name, value) ==
    IF name = "value" /\ name \in DOMAIN d THEN Refused(d) ELSE object_setattr(d, name, value)
String_delattr(d, name) ==
    IF name = "value" THEN Refused(d) ELSE object_delattr(d, name)
Complex_setattr(d, name, value) ==
    IF name \in {"real", "imag"} /\ name \in DOMAIN d THEN Refused(d)
    ELSE object_setattr(d, name, value)
Complex_delattr(d, name) ==
    IF name \in {"real", "imag"} THEN Refused(d) ELSE object_delattr(d, name)
Cons_delattr(d, name) ==
    IF name \in {"car", "cdr"} THEN Refused(d) ELSE object_delattr(d, name)

\* setattr(obj, name, value) and delattr(obj, name) by the class of obj
SetAttr(cls, d, name, value) ==
    CASE cls = "Symbol" -> Symbol_setattr(d, name, value)
      [] cls = "Char" -> Char_setattr(d, name, value)
      [] cls = "String" -> String_setattr(d, name, value)
      [] cls = "Complex" -> Complex_setattr(d, name, value)
      [] cls = "Cons" -> object_setattr(d, name, value)
DelAttr(cls, d, name) ==
    CASE cls = "Symbol" -> Symbol_delattr(d, name)
      [] cls = "Char" -> Char_delattr(d, name)
      [] cls = "String" -> String_delattr(d, name)
      [] cls = "Complex" -> Complex_delattr(d, name)
      [] cls = "Cons" -> Cons_delattr(d, name)

\* the __dict__ of a new object after obj.value = v (Symbol.__new__,
\* Char.__new__, String.__init__), after obj.real = a; obj.imag = b
\* (Complex.__new__) and after self.car = a; self.cdr = b (Cons.__init__)
Constructed(cls, a, b) ==
    CASE cls \in {"Symbol", "Char", "String"} -> SetAttr(cls, NoDict, "value", a).dict
      [] cls = "Complex" ->
            SetAttr(cls, SetAttr(cls, NoDict, "real", a).dict, "imag", b).dict
      [] cls = "Cons" -> SetAttr(cls, SetAttr(cls, NoDict, "car", a).dict, "cdr", b).dict

MaxObjects == 2
Classes == {"Symbol", "Char", "String", "Complex", "Cons"}
AttrNames == {"value", "real", "imag", "car", "cdr", "note"}
AttrValues == {IntV(1), IntV(2)}

\* a constructor call that makes a new object; made keeps the __dict__ the
\* constructor left.  An interned class gives no second object for a key.
Construct(cls, a, b) ==
    /\ Len(objects) < MaxObjects
    /\ cls \in {"Symbol", "Char", "Complex"} =>
           \A i \in 1..Len(objects) :
               objects[i].cls = cls => objects[i].made # Constructed(cls, a, b)
    /\ nops < MaxOps
    /\ objects' = Append(objects, [cls |-> cls, dict |-> Constructed(cls, a, b),
                                   made |-> Constructed(cls, a, b)])
    /\ nops' = nops + 1
    /\ ret' = NoRet
    /\ UNCHANGED <<cells, arrays, pylists, flags, Interned, OtherThanObjects>>

\* obj.name = value
AssignAttr(i, name, value) ==
    /\ nops < MaxOps
    /\ objects' = [objects EXCEPT ![i].dict = SetAttr(objects[i].cls, @, name, value).dict]
    /\ nops' = nops + 1
    /\ ret' = [op |-> "setattr", obj |-> i, name |-> name, value |-> value, before |-> objects,
               err |-> SetAttr(objects[i].cls, objects[i].dict, name, value).err]
    /\ UNCHANGED <<cells, arrays, pylists, flags, Interned, OtherThanObjects>>

\* del obj.name
DeleteAttr(i, name) ==
    /\ nops < MaxOps
    /\ objects' = [objects EXCEPT ![i].dict = DelAttr(objects[i].cls, @, name).dict]
    /\ nops' = nops + 1
    /\ ret' = [op |-> "delattr", obj |-> i, name |-> name, before |-> objects,
               err |-> DelAttr(objects[i].cls, objects[i].dict, name).err]
    /\ UNCHANGED <<cells, arrays, pylists, flags, Interned, OtherThanObjects>>

InitAttr ==
    /\ NoAtoms
    /\ OtherStateInit
    /\ cells = <<>>
    /\ arrays = <<>>
    /\ pylists = <<>>
    /\ nops = 0
    /\ flags = DefaultFlags
    /\ ret = NoRet

NextAttr ==
    \/ \E cls \in Classes, a, b \in AttrValues : Construct(cls, a, b)
    \/ \E i \in 1..Len(objects), name \in AttrNames, value \in AttrValues :
           AssignAttr(i, name, value)
    \/ \E i \in 1..Len(objects), name \in AttrNames : DeleteAttr(i, name)

SpecAttr == InitAttr /\ [][NextAttr]_vars

\* the attributes of a class that the claim calls write-once
WriteOnce(cls) ==
    CASE cls \in {"Symbol", "Char", "String"} -> {"value"}
      [] cls = "Complex" -> {"real", "imag"}
      [] cls = "Cons" -> {}

(***************************************************************************)
(* C13: after construction every assignment to and every deletion of       *)
(* Symbol.value, Char.value, String.value, Complex.real and Complex.imag   *)
(* raises and the attribute keeps the value set at construction; deleting  *)
(* car or cdr of a Cons raises and the field stays, while assigning car or *)
(* cdr of a Cons succeeds.                                                 *)
(***************************************************************************)
C13_WriteOnceAttributes ==
    /\ \A i \in 1..Len(objects) :
           /\ \A a \in WriteOnce(objects[i].cls) :
                  a \in DOMAIN objects[i].dict /\ objects[i].dict[a] = objects[i].made[a]
           /\ objects[i].cls = "Cons" => {"car", "cdr"} \subseteq DOMAIN objects[i].dict
    /\ (ret.op \in {"setattr", "delattr"}
        /\ ret.name \in WriteOnce(ret.before[ret.obj].cls))
           => ret.err = "PermissionError" /\ objects = ret.before
    /\ (ret.op = "delattr" /\ ret.before[ret.obj].cls = "Cons" /\ ret.name \in {"car", "cdr"})
           => ret.err = "PermissionError" /\ objects = ret.before
    /\ (ret.op = "setattr" /\ ret.before[ret.obj].cls = "Cons" /\ ret.name \in {"car", "cdr"})
           => ret.err = "" /\ objects[ret.obj].dict[ret.name] = ret.value

\* an assignment of another value to imag of a Complex was refused, with a
\* Symbol constructed as well
C13_Witness ==
    /\ ret.op = "setattr"
    /\ ret.before[ret.obj].cls = "Complex"
    /\ ret.name = "imag"
    /\ ret.value # ret.before[ret.obj].made.imag
    /\ ret.err = "PermissionError"
    /\ \E i \in 1..Len(objects) : objects[i].cls = "Symbol"

(***************************************************************************)
(* SpecNil: after the import, Nil() is called and attributes of the Nil    *)
(* instance and of the class Nil are assigned and deleted.                 *)
(***************************************************************************)
NilNames == {"car", "cdr", "_Nil__singleinstance", "note"}
NilValues == {None, IntV(1), NIL_object}
NilObjects == {NilObj(k) : k \in 1..Len(nil.objs)}

CallNil ==
    /\ nil' = Nil_new(nil).st
    /\ ret' = [op |-> "Nil()", val |-> Nil_new(nil).val]
    /\ UNCHANGED <<cells, arrays, pylists, nops, flags, Interned, OtherThanNil>>

\* o.name = value on a Nil object
NilAssign(o, name, value) ==
    /\ nil' = Nil_setattr(nil, o, name, value).st
    /\ ret' = [op |-> "NIL.setattr", name |-> name, before |-> nil,
               err |-> Nil_setattr(nil, o, name, value).err]
    /\ UNCHANGED <<cells, arrays, pylists, nops, flags, Interned, OtherThanNil>>

\* del o.name on a Nil object
NilDelete(o, name) ==
    /\ nil' = Nil_delattr(nil, o, name).st
    /\ ret' = [op |-> "NIL.delattr", name |-> name, before |-> nil,
               err |-> Nil_delattr(nil, o, name).err]
    /\ UNCHANGED <<cells, arrays, pylists, nops, flags, Interned, OtherThanNil>>

\* Nil.name = value on the class
NilClassAssign(name, value) ==
    /\ nil' = Meta_setattr(nil, name, value).st
    /\ ret' = [op |-> "Nil.setattr", name |-> name, before |-> nil,
               err |-> Meta_setattr(nil, name, value).err]
    /\ UNCHANGED <<cells, arrays, pylists, nops, flags, Interned, OtherThanNil>>

\* del Nil.name on the class
NilClassDelete(name) ==
    /\ nil' = Meta_delattr(nil, name).st
    /\ ret' = [op |-> "Nil.delattr", name |-> name, before |-> nil,
               err |-> Meta_delattr(nil, name).err]
    /\ UNCHANGED <<cells, arrays, pylists, nops, flags, Interned, OtherThanNil>>

InitNil ==
    /\ NoAtoms
    /\ OtherStateInit
    /\ cells = <<>>
    /\ arrays = <<>>
    /\ pylists = <<>>
    /\ nops = 0
    /\ flags = DefaultFlags
    /\ ret = NoRet

NextNil ==
    \/ CallNil
    \/ \E o \in NilObjects, name \in NilNames, value \in NilValues : NilAssign(o, name, value)
    \/ \E o \in NilObjects, name \in NilNames : NilDelete(o, name)
    \/ \E name \in NilNames, value \in NilValues : NilClassAssign(name, value)
    \/ \E name \in NilNames : NilClassDelete(name)

SpecNil == InitNil /\ [][NextNil]_vars

(***************************************************************************)
(* C14: after any sequence of Nil() calls and attempted assignments to car *)
(* or cdr on the Nil instance or on the class Nil there is exactly one Nil *)
(* object: every Nil() returns it, NIL.car is NIL and NIL.cdr is NIL, and  *)
(* every such assignment raises.                                           *)
(***************************************************************************)
C14_NilSingleton ==
    /\ Len(nil.objs) = 1
    /\ Nil_getattr(nil, NIL_object, "car") = NIL_object
    /\ Nil_getattr(nil, NIL_object, "cdr") = NIL_object
    /\ ret.op = "Nil()" => ret.val = NIL_object
    /\ (ret.op \in {"NIL.setattr", "Nil.setattr"} /\ ret.name \in {"car", "cdr"})
           => ret.err = "PermissionError" /\ nil = ret.before

\* an assignment to the class was refused after another attribute of the
\* instance had been set
C14_Witness ==
    /\ ret.op = "Nil.setattr"
    /\ ret.name = "cdr"
    /\ ret.err = "PermissionError"
    /\ "note" \in DOMAIN nil.objs[1]

(***************************************************************************)
(* SpecRead: a SxprStringReader over a text is called, or iterated, again  *)
(* and again.  The texts are the sequences of up to MaxForms forms joined  *)
(* by a space, and every text such a sequence starts with, so that the     *)
(* input may end anywhere inside a form.                                   *)
(***************************************************************************)
MaxForms == 2
MaxCalls == 4
Forms ==
    {<<"1">>, <<"(", "a", ")">>, <<"(", "1", " ", ".", " ", "2", ")">>, <<"\"", "s", "\"">>,
     <<"'", "a">>, <<"#", "'", "f">>, <<"#", "C", "(", "1", " ", "2", ")">>,
     <<"#", "(", "1", ")">>}
FormSeqs == UNION {[1..n -> Forms] : n \in 0..MaxForms}
RECURSIVE Join(_)
Join(fs) ==
    IF Len(fs) = 0 THEN <<>>
    ELSE IF Len(fs) = 1 THEN fs[1]
    ELSE fs[1] \o <<" ">> \o Join(Tail(fs))
ReadTexts == UNION {{SubSeq(Join(fs), 1, k) : k \in 0..Len(Join(fs))} : fs \in FormSeqs}

StopIteration == Exc("StopIteration")

\* what a call of the reader leaves behind: r is what _sxpr_read_obj gave,
\* and iter tells __next__ from __call__
ReaderReturn(r, iter) ==
    /\ reader' = [st |-> r.P.st, calls |-> reader.calls + 1]
    /\ cells' = r.P.H.cells
    /\ arrays' = r.P.H.arrays
    /\ atoms' = r.P.C.atoms
    /\ ComplexInstance' = r.P.C.table
    /\ ret' = [op |-> "read", before |-> reader, read |-> r.val,
               val |-> IF iter /\ r.val = None THEN StopIteration ELSE r.val]
    /\ UNCHANGED <<pylists, nops, flags, SymbolInstance, CharInstance, OtherThanReader>>

\* reader() and next(reader)
CallReader(iter) ==
    /\ reader.calls < MaxCalls
    /\ ReaderReturn(sxpr_read_obj([st |-> reader.st, H |-> Heap,
                                   C |-> [atoms |-> atoms, table |-> ComplexInstance]],
                                  flags), iter)

InitRead ==
    /\ NoAtoms
    /\ objects = <<>>
    /\ nil = NilImported
    /\ \E text \in ReadTexts : reader = SxprStringReader(text)
    /\ file = NoFile
    /\ iterators = <<>>
    /\ threads = NoThreads
    /\ cells = <<>>
    /\ arrays = <<>>
    /\ pylists = <<>>
    /\ nops = 0
    /\ flags \in {DefaultFlags, DialectFlags}
    /\ ret = NoRet

NextRead == \E iter \in BOOLEAN : CallReader(iter)

SpecRead == InitRead /\ [][NextRead]_vars

\* the tokens the streamer st still holds, up to the end of the input or to
\* the first one the tokenizer raises on
RECURSIVE TokensFrom(_, _)
TokensAfter(t, F) ==
    IF t.val = None THEN <<>>
    ELSE IF IsException(t.val) THEN <<t.val>>
    ELSE <<t.val>> \o TokensFrom(t.st, F)
TokensFrom(st, F) == TokensAfter(sxpr_tokenizer(st, F), F)
Pending(st, F) ==
    IF st.lookahead_token = Undef THEN TokensFrom(st, F)
    ELSE IF st.lookahead_token = None THEN <<>>
    ELSE <<st.lookahead_token>> \o TokensFrom(st, F)

\* the grammar of a form over tokens.  FormEnd(toks, i) is where the form
\* that starts at token i ends (the index after it), 0 if the input ends
\* before the form is complete, and -1 if the tokens are not a form
EndOfInput(toks, i) ==
    i > Len(toks) \/ (IsRaise(toks[i]) /\ toks[i].v = "EOFError")
IsAtomToken(x) == x.t \in {"int", "float", "frac", "sym", "str", "char"}
RECURSIVE FormEnd(_, _)
RECURSIVE ListEnd(_, _, _)
\* '(' real real ')' after the prefix #C
ComplexEnd(toks, i) ==
    IF EndOfInput(toks, i) THEN 0
    ELSE IF toks[i] # LPar THEN -1
    ELSE IF EndOfInput(toks, i + 1) THEN 0
    ELSE IF ~IsNum(toks[i + 1]) THEN -1
    ELSE IF EndOfInput(toks, i + 2) THEN 0
    ELSE IF ~IsNum(toks[i + 2]) THEN -1
    ELSE IF EndOfInput(toks, i + 3) THEN 0
    ELSE IF toks[i + 3] # RPar THEN -1
    ELSE i + 4
\* the ')' after the form that follows a dot and ends at j
DotEnd(toks, j) ==
    IF j <= 0 THEN j
    ELSE IF EndOfInput(toks, j) THEN 0
    ELSE IF toks[j] = RPar THEN j + 1
    ELSE -1
ListNext(toks, j) == IF j <= 0 THEN j ELSE ListEnd(toks, j, FALSE)
ListEnd(toks, i, first) ==
    IF EndOfInput(toks, i) THEN 0
    ELSE IF toks[i] = RPar THEN i + 1
    ELSE IF toks[i] = Dot THEN IF first THEN -1 ELSE DotEnd(toks, FormEnd(toks, i + 1))
    ELSE ListNext(toks, FormEnd(toks, i))
FormEnd(toks, i) ==
    IF EndOfInput(toks, i) THEN 0
    ELSE IF IsException(toks[i]) THEN -1
    ELSE IF toks[i] \in {Quote, FuncRef} THEN FormEnd(toks, i + 1)
    ELSE IF IsAtomToken(toks[i]) THEN i + 1
    ELSE IF toks[i] = ComplexToken THEN ComplexEnd(toks, i + 1)
    ELSE IF toks[i].t = "arraytoken"
    THEN IF EndOfInput(toks, i + 1) THEN 0
         ELSE IF toks[i + 1] = LPar THEN ListEnd(toks, i + 2, TRUE) ELSE -1
    ELSE IF toks[i] = LPar THEN ListEnd(toks, i + 1, TRUE)
    ELSE -1

(***************************************************************************)
(* C15: a read returns end-of-stream only when the input ends before any   *)
(* token of a form; when the input ends after a form was opened (after     *)
(* '(', a quote, a function quote, a #C or array prefix, a dot, or inside  *)
(* a string) and before it is complete, the read raises and returns no     *)
(* value.                                                                  *)
(***************************************************************************)
C15_EofInsideFormRaises ==
    ret.op = "read" =>
        /\ ret.read = None => Pending(ret.before.st, flags) = <<>>
        /\ (Pending(ret.before.st, flags) # <<>>
            /\ FormEnd(Pending(ret.before.st, flags), 1) = 0)
               => IsException(ret.read)

\* the text f is exactly one form under the flags F
IsOneForm(f, F) ==
    FormEnd(TokensFrom(StringStreamer(f), F), 1) = Len(TokensFrom(StringStreamer(f), F)) + 1
\* the sequences of forms that the text is made of
FormsOf(text, F) ==
    {fs \in FormSeqs : Join(fs) = text /\ \A k \in 1..Len(fs) : IsOneForm(fs[k], F)}
\* repr of what a read r returned, in the heap the read left
ReprOf(r) == Cons_repr(r.P.H, r.P.C, r.val)
\* repr of the value the form f stands for when read on its own
FormRepr(f, F) == ReprOf(sxparse(EmptyHeap, [atoms |-> <<>>, table |-> <<>>], f, F))

(***************************************************************************)
(* C16: on a text of n well-formed top-level forms the successive reads of *)
(* one reader return the values of the n forms in source order, one per    *)
(* call, and every read after the n-th returns end-of-stream (iteration    *)
(* stops), however often the reader is called.                             *)
(***************************************************************************)
C16_ReadsInSourceOrder ==
    ret.op = "read" =>
        \A fs \in FormsOf(ret.before.st.text, flags) :
            IF ret.before.calls < Len(fs)
            THEN /\ ~IsException(ret.read)
                 /\ ret.read # None
                 /\ Cons_repr(Heap, [atoms |-> atoms, table |-> ComplexInstance], ret.read)
                       = FormRepr(fs[ret.before.calls + 1], flags)
            ELSE ret.read = None /\ ret.val \in {None, StopIteration}

\* the fourth read of a text of two forms stopped the iteration, the two
\* forms having made three Cons
C16_Witness ==
    /\ ret.op = "read"
    /\ ret.before.calls = 3
    /\ ret.val = StopIteration
    /\ flags = DialectFlags
    /\ reader.st.text = Join(<<(<<"(", "a", ")">>), (<<"'", "a">>)>>)
    /\ Len(cells) = 3

(***************************************************************************)
(* mkreverse, mkappend and nconc.  Each gives the heap afterwards, the     *)
(* value returned and the exception raised, if any.                        *)
(***************************************************************************)
Returns(H, val) == [H |-> H, val |-> val, err |-> ""]
TypeError(H) == [H |-> H, val |-> None, err |-> "TypeError"]

\* a variant that stops at a terminal value that is no Cons
ConsIterator_next_mut(H, it) ==
    IF ~consp(it.cons) \/ it.cons.v \in it.occurence
    THEN [it |-> [it EXCEPT !.occurence = {}], value |-> None, stop |-> TRUE]
    ELSE [it |-> [cons |-> cdr(H, it.cons), occurence |-> it.occurence \cup {it.cons.v}],
          value |-> car(H, it.cons), stop |-> FALSE]
\* _ConsIterator.__next__ on the iterator it = [cons, occurence]
ConsIterator_next(H, it) ==
    IF null(it.cons) \/ (consp(it.cons) /\ it.cons.v \in it.occurence)
    THEN [it |-> [it EXCEPT !.occurence = {}], value |-> None, stop |-> TRUE]
    ELSE IF consp(it.cons)
    THEN [it |-> [cons |-> cdr(H, it.cons), occurence |-> it.occurence \cup {it.cons.v}],
          value |-> car(H, it.cons), stop |-> FALSE]
    ELSE [it |-> [it EXCEPT !.cons = NIL], value |-> it.cons, stop |-> FALSE]

\* the for loop of mkreverse: x is what the iterator gave
RECURSIVE mkreverse_loop(_, _, _, _)
mkreverse_step(H, x, n, r) ==
    IF x.stop \/ n < 1 THEN Returns(H, r)
    ELSE mkreverse_loop(NewCons(H, x.value, r), x.it, n - 1, ConsRef(Len(H.cells) + 1))
mkreverse_loop(H, it, n, r) == mkreverse_step(H, ConsIterator_next(H, it), n, r)
mkreverse(H, l) ==
    IF ~listp(l) THEN TypeError(H)
    ELSE mkreverse_loop(H, [cons |-> l, occurence |-> {}],
                        IF null(l) THEN 0 ELSE Cons_len(H, l), NIL)

\* the while loop of mkappend and c.cdr = l2: c is the last Cons of the copy
RECURSIVE mkappend_loop(_, _, _, _, _, _)
mkappend_loop(H, first, c, l, n, l2) ==
    IF n > 0
    THEN mkappend_loop(LinkCons(H, c, car(H, l)), first, ConsRef(Len(H.cells) + 1),
                       cdr(H, l), n - 1, l2)
    ELSE Returns([H EXCEPT !.cells[c.v].cdr = l2], first)
mkappend(H, l1, l2) ==
    IF null(l1) THEN Returns(H, l2)
    ELSE IF consp(l1)
    THEN mkappend_loop(NewCons(H, car(H, l1), NIL), ConsRef(Len(H.cells) + 1),
                       ConsRef(Len(H.cells) + 1), cdr(H, l1), Cons_len(H, l1) - 1, l2)
    ELSE TypeError(H)

\* the while loop of nconc and l1.cdr = l2
RECURSIVE nconc_loop(_, _, _, _, _)
nconc_loop(H, first, l1, n, l2) ==
    IF n > 0 THEN nconc_loop(H, first, cdr(H, l1), n - 1, l2)
    ELSE Returns([H EXCEPT !.cells[l1.v].cdr = l2], first)
\* a variant whose walk over l1 stops one cell early
nconc_mut(H, l1, l2) ==
    IF null(l1) THEN Returns(H, l2)
    ELSE IF consp(l1) THEN nconc_loop(H, l1, l1, Cons_len(H, l1) - 2, l2)
    ELSE TypeError(H)
nconc(H, l1, l2) ==
    IF null(l1) THEN Returns(H, l2)
    ELSE IF consp(l1) THEN nconc_loop(H, l1, l1, Cons_len(H, l1) - 1, l2)
    ELSE TypeError(H)

\* what a call of one of the three leaves behind
ListCall(op, l1, l2, r) ==
    /\ nops < MaxOps
    /\ cells' = r.H.cells
    /\ nops' = nops + 1
    /\ ret' = [op |-> op, l1 |-> l1, l2 |-> l2, before |-> Heap, err |-> r.err, val |-> r.val]
    /\ UNCHANGED <<arrays, flags, OutsideHeap>>
CallMkreverse(l) == ListCall("mkreverse", l, NIL, mkreverse(Heap, l))
CallMkappend(l1, l2) == ListCall("mkappend", l1, l2, mkappend(Heap, l1, l2))
CallNconc(l1, l2) == ListCall("nconc", l1, l2, nconc(Heap, l1, l2))

(***************************************************************************)
(* SpecList: lists are built and then reversed, appended and concatenated, *)
(* with lists and with values that are not lists as arguments.             *)
(***************************************************************************)
ListArgs == {NIL, IntV(2), Sym(<<"a">>)} \cup ConsRefs

InitList ==
    /\ NoAtoms
    /\ OtherStateInit
    /\ cells = <<>>
    /\ arrays = <<>>
    /\ pylists = <<>>
    /\ nops = 0
    /\ flags = DefaultFlags
    /\ ret = NoRet

NextList ==
    \/ \E a \in CarValues, d \in CdrValues : Cons_init(a, d)
    \/ \E l \in ListArgs : CallMkreverse(l)
    \/ \E l1, l2 \in ListArgs : CallMkappend(l1, l2)
    \/ \E l1, l2 \in ListArgs : CallNconc(l1, l2)

SpecList == InitList /\ [][NextList]_vars

(***************************************************************************)
(* C17: mkreverse, mkappend and nconc raise TypeError whenever a value     *)
(* that is neither Nil nor a Cons is passed as any of their arguments, and *)
(* then no Cons cell is modified.                                          *)
(***************************************************************************)
C17_NonListRaisesTypeError ==
    (ret.op \in {"mkreverse", "mkappend", "nconc"} /\ (~listp(ret.l1) \/ ~listp(ret.l2)))
        => ret.err = "TypeError" /\ Heap = ret.before

(***************************************************************************)
(* sxopen: a reader over a file, usable as the subject of a with           *)
(* statement.  The file object that open() gave is "open" until its        *)
(* close() is called; self is the sxopen instance (NIL while there is      *)
(* none) with its fields __fd (TRUE while it is not None) and __reader.    *)
(***************************************************************************)
FileNotFoundError == Exc("FileNotFoundError")
UnicodeDecodeError == Exc("UnicodeDecodeError")

\* _FileStreamer(fd): fd.read(1) gives the characters of the file one by
\* one and "" at its end, as _StringStreamer does for a text
FileStreamer(text) == StringStreamer(text)

\* sxopen.__init__(filename): open() raises for a missing file; the first
\* fd.read(1), made while the _FileStreamer is constructed, raises for a
\* file whose first bytes do not decode
sxopen_init ==
    /\ file.fd = "unopened"
    /\ file' = IF file.kind = "missing" THEN file
               ELSE IF file.kind = "undecodable" THEN [file EXCEPT !.fd = "open"]
               ELSE [file EXCEPT !.fd = "open",
                                 !.self = [fd |-> TRUE,
                                           reader |-> [st |-> FileStreamer(file.text)]]]
    /\ ret' = [op |-> "sxopen", before |-> file,
               val |-> IF file.kind = "missing" THEN FileNotFoundError
                       ELSE IF file.kind = "undecodable" THEN UnicodeDecodeError
                       ELSE None]
    /\ UNCHANGED <<cells, arrays, pylists, nops, flags, Interned, OtherThanFile>>

\* sxopen.close(), on the file f
sxopen_close(f) ==
    IF f.self.fd THEN [f EXCEPT !.fd = "closed", !.self = [fd |-> FALSE, reader |-> NIL]]
    ELSE f

\* with sxopen(...) as s: the block is entered
sxopen_enter ==
    /\ file.self # NIL
    /\ file.block = "before"
    /\ file' = [file EXCEPT !.block = "inside"]
    /\ ret' = [op |-> "enter", before |-> file, val |-> None]
    /\ UNCHANGED <<cells, arrays, pylists, nops, flags, Interned, OtherThanFile>>

\* sxopen.__exit__(exc_type, exc_value, traceback): the block is left, by
\* its end or by an exception
sxopen_exit(exc) ==
    /\ file.block = "inside"
    /\ file' = [sxopen_close(file) EXCEPT !.block = "after"]
    /\ ret' = [op |-> "exit", before |-> file, val |-> None, exc |-> exc]
    /\ UNCHANGED <<cells, arrays, pylists, nops, flags, Interned, OtherThanFile>>

\* s.close()
CallClose ==
    /\ file.self # NIL
    /\ file.calls < MaxCalls
    /\ file' = [sxopen_close(file) EXCEPT !.calls = file.calls + 1]
    /\ ret' = [op |-> "close", before |-> file, val |-> None]
    /\ UNCHANGED <<cells, arrays, pylists, nops, flags, Interned, OtherThanFile>>

\* what sxopen.read() and sxopen.__next__() leave behind when there is a
\* reader: r is what _sxpr_read_obj gave
sxopen_return(r, iter) ==
    /\ file' = [file EXCEPT !.self.reader = [st |-> r.P.st], !.calls = file.calls + 1]
    /\ cells' = r.P.H.cells
    /\ arrays' = r.P.H.arrays
    /\ atoms' = r.P.C.atoms
    /\ ComplexInstance' = r.P.C.table
    /\ ret' = [op |-> "read", before |-> file,
               val |-> IF iter /\ r.val = None THEN StopIteration ELSE r.val]

\* s.read() and next(s)
sxopen_read(iter) ==
    /\ file.self # NIL
    /\ file.calls < MaxCalls
    /\ IF file.self.reader = NIL
       THEN /\ file' = [file EXCEPT !.calls = file.calls + 1]
            /\ ret' = [op |-> "read", before |-> file,
                       val |-> IF iter THEN StopIteration ELSE None]
            /\ UNCHANGED <<cells, arrays, atoms, ComplexInstance>>
       ELSE sxopen_return(sxpr_read_obj([st |-> file.self.reader.st, H |-> Heap,
                                         C |-> [atoms |-> atoms,
                                                table |-> ComplexInstance]],
                                        flags), iter)
    /\ UNCHANGED <<pylists, nops, flags, SymbolInstance, CharInstance, OtherThanFile>>

(***************************************************************************)
(* SpecOpen: a file that is missing, that does not decode, or that holds   *)
(* one of the texts of SpecRead is opened with sxopen; the instance is     *)
(* read, iterated and closed, inside a with block and outside of one.      *)
(***************************************************************************)
FileKinds == {"missing", "undecodable", "text"}

InitOpen ==
    /\ NoAtoms
    /\ objects = <<>>
    /\ nil = NilImported
    /\ reader = SxprStringReader(<<>>)
    /\ threads = NoThreads
    /\ iterators = <<>>
    /\ \E kind \in FileKinds, text \in ReadTexts :
           file = [NoFile EXCEPT !.kind = kind,
                                 !.text = IF kind = "text" THEN text ELSE <<>>]
    /\ cells = <<>>
    /\ arrays = <<>>
    /\ pylists = <<>>
    /\ nops = 0
    /\ flags \in {DefaultFlags, DialectFlags}
    /\ ret = NoRet

NextOpen ==
    \/ sxopen_init
    \/ sxopen_enter
    \/ \E exc \in BOOLEAN : sxopen_exit(exc)
    \/ CallClose
    \/ \E iter \in BOOLEAN : sxopen_read(iter)

SpecOpen == InitOpen /\ [][NextOpen]_vars

(***************************************************************************)
(* C18: the file object that sxopen opened is closed once the with block   *)
(* has been left, by its end or by an exception, and also once sxopen has  *)
(* raised after opening the file; on a closed sxopen every read gives the  *)
(* end of the stream (None, or StopIteration when iterating) and a further *)
(* close changes nothing.                                                  *)
(***************************************************************************)
C18_HandleReleased ==
    /\ file.block = "after" => file.fd = "closed"
    /\ (ret.op = "sxopen" /\ ret.val.t = "raise") => file.fd # "open"
    /\ (ret.op = "read" /\ ~ret.before.self.fd) => ret.val \in {None, StopIteration}
    /\ (ret.op = "close" /\ ~ret.before.self.fd)
           => file = [ret.before EXCEPT !.calls = file.calls]

(***************************************************************************)
(* SpecArray: Array objects are made by the constructor and by reading     *)
(* array literals, and their dim attribute is assigned.                    *)
(***************************************************************************)
\* a.dim = value with an int value: v = int(value)
Array_setdim(a, value) ==
    /\ nops < MaxOps
    /\ arrays' = [arrays EXCEPT ![a].dim = value]
    /\ nops' = nops + 1
    /\ ret' = [op |-> "setdim", arg |-> a, val |-> None]
    /\ UNCHANGED <<cells, flags, OutsideHeap>>

\* the int values given as dim
DimInputs == (-1)..2
\* the texts read: #(1), #1A(1), #0A(1), #2a(), and #0A(1) #(2)
ArrayTexts ==
    {<<"#", "(", "1", ")">>, <<"#", "1", "A", "(", "1", ")">>,
     <<"#", "0", "A", "(", "1", ")">>, <<"#", "2", "a", "(", ")">>,
     <<"#", "0", "A", "(", "1", ")", " ", "#", "(", "2", ")">>}

InitArray ==
    /\ NoAtoms
    /\ objects = <<>>
    /\ nil = NilImported
    /\ \E text \in ArrayTexts : reader = SxprStringReader(text)
    /\ file = NoFile
    /\ iterators = <<>>
    /\ threads = NoThreads
    /\ cells = <<>>
    /\ arrays = <<>>
    /\ pylists = <<>>
    /\ nops = 0
    /\ flags \in {DefaultFlags, DialectFlags}
    /\ ret = NoRet

NextArray ==
    \/ \E dim \in DimInputs : Array_init(dim, NIL)
    \/ \E a \in 1..Len(arrays), value \in DimInputs : Array_setdim(a, value)
    \/ CallReader(FALSE)

SpecArray == InitArray /\ [][NextArray]_vars

(***************************************************************************)
(* C19: every Array object, whether the constructor made it, its dim was   *)
(* assigned, or an array literal was read with enableArray set, has        *)
(* dim >= 1.                                                               *)
(***************************************************************************)
C19_ArrayDimPositive == \A a \in 1..Len(arrays) : arrays[a].dim >= 1

(***************************************************************************)
(* Threads that construct interned atoms.  A thread inside __new__ is at   *)
(* "get" (the key v is computed, the table has not been looked up), at     *)
(* "test" (obj holds what the table's get gave) or at "return" (obj is the *)
(* object it made and stored); a thread switch may happen between any two  *)
(* of these.  The library takes no lock; a program that is guarded has     *)
(* every thread take one lock of its own around each construction.         *)
(***************************************************************************)
Threads == {1, 2}
MaxNew == 2

\* a thread outside of __new__
IdleThread == [pc |-> "idle", cls |-> "", key |-> <<>>, real |-> NIL, imag |-> NIL,
               obj |-> 0, made |-> 0, results |-> {}, raced |-> FALSE]

\* the key v that __new__ of class cls computes from its arguments
KeyOf(cls, a, b, F) ==
    IF cls = "Symbol" THEN Symbol_value(a, F)
    ELSE IF cls = "Char" THEN Char_value(a)
    ELSE Complex_key(Complex_reduce_frac(a), Complex_reduce_frac(b))

\* the intern table of class cls
TableOf(cls) ==
    IF cls = "Symbol" THEN SymbolInstance
    ELSE IF cls = "Char" THEN CharInstance
    ELSE ComplexInstance

\* thread t calls cls(a, b): the statements of __new__ up to the key
New_enter(t, cls, a, b) ==
    /\ threads.th[t].pc = "idle"
    /\ threads.th[t].made < MaxNew
    /\ threads.guarded => threads.lock = 0
    /\ threads' = [threads EXCEPT
                       !.lock = IF threads.guarded THEN t ELSE 0,
                       !.th[t] = [@ EXCEPT !.pc = "get", !.cls = cls,
                                           !.key = KeyOf(cls, a, b, flags),
                                           !.real = IF cls = "Complex"
                                                    THEN Complex_reduce_frac(a) ELSE NIL,
                                           !.imag = IF cls = "Complex"
                                                    THEN Complex_reduce_frac(b) ELSE NIL]]
    /\ ret' = NoRet
    /\ UNCHANGED <<cells, arrays, pylists, nops, flags, Interned, OtherThanThreads>>

\* obj = table.get(v), in the thread th
Looked_mut(th, table) == [th EXCEPT !.pc = "test", !.obj = 0]
Looked(th, table) == [th EXCEPT !.pc = "test", !.obj = Instance_get(table, th.key)]

New_get(t) ==
    /\ threads.th[t].pc = "get"
    /\ threads' = [threads EXCEPT !.th[t] = Looked(@, TableOf(@.cls))]
    /\ ret' = NoRet
    /\ UNCHANGED <<cells, arrays, pylists, nops, flags, Interned, OtherThanThreads>>

\* the table with key stored for object n
Stored(table, key, n) == (key :> n) @@ table

\* obj is None: obj = super().__new__(self); its fields are set;
\* table[v] = obj
New_insert(t) ==
    /\ threads.th[t].pc = "test"
    /\ threads.th[t].obj = 0
    /\ atoms' = Append(atoms, [cls |-> threads.th[t].cls, value |-> threads.th[t].key,
                               real |-> threads.th[t].real, imag |-> threads.th[t].imag,
                               refs |-> "held"])
    /\ SymbolInstance' = IF threads.th[t].cls = "Symbol"
                         THEN Stored(SymbolInstance, threads.th[t].key, Len(atoms) + 1)
                         ELSE SymbolInstance
    /\ CharInstance' = IF threads.th[t].cls = "Char"
                       THEN Stored(CharInstance, threads.th[t].key, Len(atoms) + 1)
                       ELSE CharInstance
    /\ ComplexInstance' = IF threads.th[t].cls = "Complex"
                          THEN Stored(ComplexInstance, threads.th[t].key, Len(atoms) + 1)
                          ELSE ComplexInstance
    /\ threads' = [threads EXCEPT
                       !.th[t] = [@ EXCEPT !.pc = "return", !.obj = Len(atoms) + 1,
                                           !.raced = @ \/ threads.th[t].key
                                                             \in DOMAIN TableOf(threads.th[t].cls)]]
    /\ ret' = NoRet
    /\ UNCHANGED <<cells, arrays, pylists, nops, flags, OtherThanThreads>>

\* return obj: the thread keeps the object it was given
New_return(t) ==
    /\ \/ threads.th[t].pc = "return"
       \/ threads.th[t].pc = "test" /\ threads.th[t].obj # 0
    /\ threads' = [threads EXCEPT
                       !.lock = 0,
                       !.th[t] = [IdleThread EXCEPT
                                      !.made = threads.th[t].made + 1,
                                      !.results = threads.th[t].results \cup {threads.th[t].obj},
                                      !.raced = threads.th[t].raced]]
    /\ ret' = [op |-> "new", thread |-> t, val |-> threads.th[t].obj]
    /\ UNCHANGED <<cells, arrays, pylists, nops, flags, Interned, OtherThanThreads>>

(***************************************************************************)
(* SpecThreads: two threads construct Symbol, Char and Complex objects,    *)
(* with equal and with different keys, in every interleaving of their      *)
(* steps; in a guarded program a thread enters __new__ only when it has    *)
(* taken the lock, which it gives back when __new__ has returned.          *)
(***************************************************************************)
\* Symbol("a"), Symbol("A"), Char("a"), Char("#\a"), Complex(1, 1)
ThreadInputs ==
    {<<"Symbol", <<"a">>, NIL>>, <<"Symbol", <<"A">>, NIL>>,
     <<"Char", <<"a">>, NIL>>, <<"Char", <<"#", "\\", "a">>, NIL>>,
     <<"Complex", IntV(1), IntV(1)>>}

InitThreads ==
    /\ NoAtoms
    /\ objects = <<>>
    /\ nil = NilImported
    /\ reader = SxprStringReader(<<>>)
    /\ file = NoFile
    /\ iterators = <<>>
    /\ \E guarded \in BOOLEAN :
           threads = [guarded |-> guarded, lock |-> 0, th |-> [t \in Threads |-> IdleThread]]
    /\ cells = <<>>
    /\ arrays = <<>>
    /\ pylists = <<>>
    /\ nops = 0
    /\ flags \in {DefaultFlags, [DefaultFlags EXCEPT !.ignoreCase = TRUE]}
    /\ ret = NoRet

NextThreads ==
    \/ \E t \in Threads, in \in ThreadInputs : New_enter(t, in[1], in[2], in[3])
    \/ \E t \in Threads : New_get(t)
    \/ \E t \in Threads : New_insert(t)
    \/ \E t \in Threads : New_return(t)

SpecThreads == InitThreads /\ [][NextThreads]_vars

\* no two live objects of one class have the same key
OnePerKey ==
    \A i, j \in 1..Len(atoms) :
        (Live(i) /\ Live(j) /\ atoms[i].cls = atoms[j].cls
         /\ atoms[i].value = atoms[j].value) => i = j

(***************************************************************************)
(* C20: when every construction runs under the one lock, at most one live  *)
(* object per class and key exists in every interleaving; two live objects *)
(* for one key arise only without the lock, from a thread that stored its  *)
(* object for a key another thread had stored since its own lookup.        *)
(***************************************************************************)
C20_UniqueUnderLock ==
    /\ threads.guarded => OnePerKey
    /\ ~OnePerKey => \E t \in Threads : threads.th[t].raced

\* without the lock both threads have returned from constructing an atom
\* with the same key, and each holds an object of its own
C20_Witness ==
    /\ ~threads.guarded
    /\ \A t \in Threads : threads.th[t].pc = "idle"
    /\ \E i \in threads.th[1].results, j \in threads.th[2].results :
           /\ i # j
           /\ atoms[i].cls = atoms[j].cls
           /\ atoms[i].value = atoms[j].value

(***************************************************************************)
(* SpecShare: str() of the structures that calls of Cons(a, d) alone       *)
(* build.  Such a structure is acyclic, since a new Cons can only refer to *)
(* the Cons objects made before it, but a Cons may be referred to from     *)
(* several places.                                                         *)
(***************************************************************************)
MaxShared == 3
ShareCars == {IntV(1), SymQuote}
ShareCdrs == {NIL, IntV(2)}

\* the heaps of n cells that n calls of Cons(a, d) can leave behind, a
\* being one of the atoms A or a Cons made before, and d one of D or such
\* a Cons
RECURSIVE Built(_, _, _)
Built(n, A, D) ==
    IF n = 0 THEN {<<>>}
    ELSE UNION {{Append(h, [car |-> a, cdr |-> d]) :
                     a \in A \cup {ConsRef(j) : j \in 1..(n - 1)},
                     d \in D \cup {ConsRef(j) : j \in 1..(n - 1)}} :
                h \in Built(n - 1, A, D)}
BuiltCells(n) == Built(n, ShareCars, ShareCdrs)

InitShare ==
    /\ NoAtoms
    /\ OtherStateInit
    /\ cells \in UNION {BuiltCells(n) : n \in 1..MaxShared}
    /\ arrays = <<>>
    /\ pylists = <<>>
    /\ nops = 0
    /\ flags \in {[DefaultFlags EXCEPT !.enableQuote = q] : q \in BOOLEAN}
    /\ ret = NoRet

NextShare == \E x \in ConsRefs : CallStr(x)

SpecShare == InitShare /\ [][NextShare]_vars

\* a copy of the value x of heap H appended to the cells N, in which every
\* reference to a Cons has a copy of that Cons for itself
RECURSIVE Unshared(_, _, _)
UnsharedCons(a, d) ==
    [cells |-> Append(d.cells, [car |-> a.val, cdr |-> d.val]),
     val |-> ConsRef(Len(d.cells) + 1)]
UnsharedCdr(H, a, x) == UnsharedCons(a, Unshared(H, a.cells, cdr(H, x)))
Unshared(H, N, x) ==
    IF ~consp(x) THEN [cells |-> N, val |-> x]
    ELSE UnsharedCdr(H, Unshared(H, N, car(H, x)), x)

\* str() of the value u.val in the heap of the cells u.cells
StrOfCopy(u, F) == Cons_str([cells |-> u.cells, arrays |-> <<>>], u.val, F)

\* the text s holds the marker "..."
HasMarker(s) ==
    \E i \in 1..(Len(s) - 2) : s[i] = "." /\ s[i + 1] = "." /\ s[i + 2] = "."

(***************************************************************************)
(* C21: str() of a finite acyclic Cons structure, shared parts included,   *)
(* returns, holds no "..." marker, and is the text str() gives for a copy  *)
(* of the structure in which nothing is shared.                            *)
(***************************************************************************)
C21_SharingDoesNotShow ==
    ret.op = "str" =>
        /\ ret.val.ok
        /\ ~HasMarker(ret.val.s)
        /\ ret.val = StrOfCopy(Unshared(Heap, <<>>, ret.arg), flags)

\* the printed Cons holds one Cons twice as an element, and one Cons both
\* as an element and as a tail
C21_Witness ==
    /\ ret.op = "str"
    /\ ret.val.ok
    /\ \E i, k \in Closure(Heap, {ret.arg.v}) :
           i # k /\ consp(cells[i].car) /\ cells[i].car = cells[k].car
    /\ \E i, k \in Closure(Heap, {ret.arg.v}) :
           consp(cells[i].car) /\ cells[i].car = cells[k].cdr

(***************************************************************************)
(* Cons.__eq__ and Cons.__ne__.                                            *)
(***************************************************************************)
\* a variant that compares the str() texts
Cons_eq_mut(H, C, self, v) ==
    consp(v) /\ Cons_str(H, self, DefaultFlags) = Cons_str(H, v, DefaultFlags)
\* self == v
Cons_eq(H, C, self, v) == consp(v) /\ Cons_repr(H, C, self) = Cons_repr(H, C, v)
\* self != v
Cons_ne(H, C, self, v) == ~consp(v) \/ Cons_repr(H, C, self) # Cons_repr(H, C, v)

\* a == b and a != b; x and y are the two Cons the program holds
CallEq(a, b) ==
    /\ ret' = [op |-> "eq", x |-> ret.x, y |-> ret.y, a |-> a, b |-> b,
               val |-> Cons_eq(Heap, ComplexState, a, b)]
    /\ UNCHANGED <<cells, arrays, nops, flags, OutsideHeap>>

CallNe(a, b) ==
    /\ ret' = [op |-> "ne", x |-> ret.x, y |-> ret.y, a |-> a, b |-> b,
               val |-> Cons_ne(Heap, ComplexState, a, b)]
    /\ UNCHANGED <<cells, arrays, nops, flags, OutsideHeap>>

(***************************************************************************)
(* SpecEq: a program builds a structure x with calls of Cons(a, d), in     *)
(* which a Cons may be referred to from several places, then builds a copy *)
(* y of x, or of a part of x, in which nothing is shared, and compares x   *)
(* and y with themselves, with one another and with values that are no     *)
(* Cons.                                                                   *)
(***************************************************************************)
MaxEq == 3
EqCars == {IntV(1), Sym(<<"a">>)}
EqCdrs == {NIL}

InitEq ==
    /\ NoAtoms
    /\ OtherStateInit
    /\ \E n \in 1..MaxEq : \E h \in Built(n, EqCars, EqCdrs) : \E part \in 1..n :
           /\ cells = Unshared([cells |-> h, arrays |-> <<>>], h, ConsRef(part)).cells
           /\ ret = [op |-> "Cons", x |-> ConsRef(n), y |-> ConsRef(Len(cells))]
    /\ arrays = <<>>
    /\ pylists = <<>>
    /\ nops = 0
    /\ flags = DefaultFlags

NextEq ==
    \/ \E a \in {ret.x, ret.y}, b \in {ret.x, ret.y, NIL, IntV(1)} : CallEq(a, b)
    \/ \E b \in {ret.y, NIL} : CallNe(ret.x, b)

SpecEq == InitEq /\ [][NextEq]_vars

\* x and y have the same shape, and leaves with equal repr
RECURSIVE SameShape(_, _, _)
SameShape(H, x, y) ==
    IF consp(x) /\ consp(y)
    THEN SameShape(H, car(H, x), car(H, y)) /\ SameShape(H, cdr(H, x), cdr(H, y))
    ELSE /\ ~consp(x)
         /\ ~consp(y)
         /\ Atom_repr(H, ComplexState, x) = Atom_repr(H, ComplexState, y)

\* the value x is a Cons no part of which is referred to twice
Unsharing(H, x) == consp(x) /\ ~HasSharing(H, x.v)

(***************************************************************************)
(* C22: a == b for a Cons a is TRUE exactly when b is a Cons with the same *)
(* repr text, and a != b is its negation; a Cons in which some Cons is     *)
(* referred to twice is unequal to a copy of it in which nothing is        *)
(* shared, although str() gives the same text for both; two Cons without   *)
(* sharing are equal exactly when they have the same shape and leaves with *)
(* equal repr.                                                             *)
(***************************************************************************)
C22_EqualityIsReprEquality ==
    ret.op \in {"eq", "ne"} =>
        /\ (ret.val = (ret.op = "eq"))
               = (consp(ret.b) /\ Cons_repr(Heap, ComplexState, ret.a)
                                      = Cons_repr(Heap, ComplexState, ret.b))
        /\ (/\ ~Unsharing(Heap, ret.a)
            /\ Unsharing(Heap, ret.b)
            /\ SameShape(Heap, ret.a, ret.b))
               => /\ ret.val = (ret.op = "ne")
                  /\ Cons_str(Heap, ret.a, flags) = Cons_str(Heap, ret.b, flags)
        /\ (Unsharing(Heap, ret.a) /\ Unsharing(Heap, ret.b))
               => (ret.val = (ret.op = "eq")) = SameShape(Heap, ret.a, ret.b)

\* a list that holds one list twice as an element was found unequal to the
\* copy that holds two lists of the same shape
C22_Witness ==
    /\ ret.op = "eq"
    /\ ~ret.val
    /\ consp(ret.b)
    /\ SameShape(Heap, ret.a, ret.b)
    /\ Unsharing(Heap, ret.b)
    /\ \E i, k \in Closure(Heap, {ret.a.v}) :
           i # k /\ consp(cells[i].car) /\ cells[i].car = cells[k].car

(***************************************************************************)
(* SpecSelf: host lists are built from list displays and then changed by   *)
(* item assignment, so that a list may contain itself, directly or through *)
(* a list it holds; such lists are converted with py2sx.                   *)
(***************************************************************************)
\* the host evaluates l[i] = x
List_setitem(l, i, x) ==
    /\ nops < MaxOps
    /\ pylists' = [pylists EXCEPT ![l][i] = x]
    /\ nops' = nops + 1
    /\ ret' = NoRet
    /\ UNCHANGED <<flags, OutsideHost>>

\* py2sx(l); the Cons objects it made are those in cells
CallPy2sx(l) ==
    /\ ret' = [op |-> "py2sx", arg |-> l,
               st |-> py2sx(pylists, <<>>, ListRef(l), TRUE, flags).st,
               val |-> py2sx(pylists, <<>>, ListRef(l), TRUE, flags).val]
    /\ UNCHANGED <<pylists, nops, flags, OutsideHost>>

SelfAtoms == {IntV(1)}
SelfValues == SelfAtoms \cup {ListRef(i) : i \in 1..Len(pylists)}

InitSelf ==
    /\ NoAtoms
    /\ OtherStateInit
    /\ cells = <<>>
    /\ arrays = <<>>
    /\ pylists = <<>>
    /\ nops = 0
    /\ flags = DefaultFlags
    /\ ret = NoRet

NextSelf ==
    \/ \E n \in PyListLens : \E elems \in [1..n -> SelfValues] : List_new(elems)
    \/ \E l \in 1..Len(pylists) : \E i \in 1..Len(pylists[l]), x \in SelfValues :
           List_setitem(l, i, x)
    \/ \E l \in 1..Len(pylists) : CallPy2sx(l)

SpecSelf == InitSelf /\ [][NextSelf]_vars

\* the lists that are elements of one of the lists X
ListElems(L, X) == UNION {{L[l][k].v : k \in {j \in 1..Len(L[l]) : L[l][j].t = "list"}} : l \in X}
RECURSIVE ListClosure(_, _)
ListClosure(L, X) ==
    IF ListElems(L, X) \subseteq X THEN X ELSE ListClosure(L, X \cup ListElems(L, X))
\* list l contains itself, at some position and some depth
ContainsItself(L, l) == l \in ListClosure(L, ListElems(L, {l}))

(***************************************************************************)
(* C23: py2sx of a host list that contains itself, at any position and any *)
(* depth, returns, and what it returns is a cyclic Cons structure: the     *)
(* Cons made for the list stands at each place where the list contains     *)
(* itself.                                                                 *)
(***************************************************************************)
C23_Py2sxOfSelfContainingList ==
    (ret.op = "py2sx" /\ ContainsItself(pylists, ret.arg))
        => /\ ret.st.err = ""
           /\ consp(ret.val)
           /\ OnCycle([cells |-> ret.st.cells, arrays |-> <<>>], ret.val.v)

(***************************************************************************)
(* Iteration.  An iterator is [cons, occurence], the two fields of a       *)
(* _ConsIterator, together with the value it was made for and the values   *)
(* it has given so far, which are kept to state properties.                *)
(***************************************************************************)
MaxIters == 1

\* iter(x) for a Cons or Nil x: Cons.__iter__, Nil.__iter__
CallIter(x) ==
    /\ Len(iterators) < MaxIters
    /\ iterators' = Append(iterators, [cons |-> x, occurence |-> {}, of |-> x,
                                       given |-> <<>>, stopped |-> FALSE])
    /\ ret' = [op |-> "iter", val |-> Len(iterators) + 1]
    /\ UNCHANGED <<cells, arrays, pylists, nops, flags, Interned,
                   objects, nil, reader, file, threads>>

\* next(it) inside a for loop, which ends at the first StopIteration
Next_return(i, r) ==
    /\ iterators' = [iterators EXCEPT ![i] = [cons |-> r.it.cons, occurence |-> r.it.occurence,
                                              of |-> @.of,
                                              given |-> IF r.stop THEN @.given
                                                        ELSE Append(@.given, r.value),
                                              stopped |-> r.stop]]
    /\ ret' = [op |-> "next", it |-> i, val |-> IF r.stop THEN StopIteration ELSE r.value]
    /\ UNCHANGED <<cells, arrays, pylists, nops, flags, Interned,
                   objects, nil, reader, file, threads>>
CallNext(i) ==
    /\ ~iterators[i].stopped
    /\ Next_return(i, ConsIterator_next(Heap, [cons |-> iterators[i].cons,
                                               occurence |-> iterators[i].occurence]))

(***************************************************************************)
(* SpecIter: proper, dotted and cyclic lists are built, and then iterated  *)
(* to the end, as is NIL.                                                  *)
(***************************************************************************)
InitIter ==
    /\ NoAtoms
    /\ OtherStateInit
    /\ cells = <<>>
    /\ arrays = <<>>
    /\ pylists = <<>>
    /\ nops = 0
    /\ flags = DefaultFlags
    /\ ret = NoRet

NextIter ==
    \/ \E a \in CarValues, d \in CdrValues : iterators = <<>> /\ Cons_init(a, d)
    \/ \E c \in 1..Len(cells), x \in CdrValues :
           iterators = <<>> /\ Cons_setattr(c, "cdr", x)
    \/ \E x \in ConsRefs \cup {NIL} : CallIter(x)
    \/ \E i \in 1..Len(iterators) : CallNext(i)

SpecIter == InitIter /\ [][NextIter]_vars

\* the cars of the cells chain of the heap H, in order
CarsOf(H, chain) == [k \in 1..Len(chain) |-> H.cells[chain[k]].car]
\* what iterating x gives in all: the cars of the distinct cells of its cdr
\* chain, and then the terminal value when that is an atom other than NIL
ItemsOf(H, x) ==
    IF ~consp(x) THEN <<>>
    ELSE CarsOf(H, ChainOf(H, x.v))
             \o (IF Terminated(H, x.v) /\ ~null(Terminal(H, x.v))
                 THEN <<Terminal(H, x.v)>> ELSE <<>>)

(***************************************************************************)
(* C24: the values an iteration of a Cons has given are, in order, the     *)
(* cars of the distinct cells of its cdr chain and then the terminal value *)
(* if that is an atom other than NIL; the iteration stops after these, at  *)
(* the first cell met again when the chain is cyclic; so it gives len(c)   *)
(* values for a proper or cyclic list and len(c) + 1 for a dotted one, and *)
(* none for NIL.                                                           *)
(***************************************************************************)
C24_IterationYieldsChain ==
    \A i \in 1..Len(iterators) :
        /\ Len(iterators[i].given) <= Len(ItemsOf(Heap, iterators[i].of))
        /\ iterators[i].given
               = SubSeq(ItemsOf(Heap, iterators[i].of), 1, Len(iterators[i].given))
        /\ iterators[i].stopped =>
               /\ iterators[i].given = ItemsOf(Heap, iterators[i].of)
               /\ null(iterators[i].of) => iterators[i].given = <<>>
               /\ consp(iterators[i].of) =>
                      Len(iterators[i].given)
                          = Cons_len(Heap, iterators[i].of)
                                + (IF Terminated(Heap, iterators[i].of.v)
                                      /\ ~null(Terminal(Heap, iterators[i].of.v))
                                   THEN 1 ELSE 0)

\* the iteration of a cyclic list of two cells has stopped
C24_Witness ==
    \E i \in 1..Len(iterators) :
        /\ iterators[i].stopped
        /\ consp(iterators[i].of)
        /\ ~Terminated(Heap, iterators[i].of.v)
        /\ Len(iterators[i].given) = 2

(***************************************************************************)
(* SpecStream: the characters of a text of several lines are taken from a  *)
(* streamer, by calls of its read() and by calls of _next_token.           *)
(***************************************************************************)
MaxText == 3
StreamChars == {"a", " ", "\n", "\r"}
StreamTexts == UNION {[1..n -> StreamChars] : n \in 0..MaxText}

\* streamer.read() on the streamer of the reader
CallStreamerRead ==
    /\ reader.calls < MaxCalls
    /\ reader' = [st |-> Streamer_read(reader.st), calls |-> reader.calls + 1]
    /\ ret' = [op |-> "streamer.read", val |-> reader.st.lookahead_char]
    /\ UNCHANGED <<cells, arrays, pylists, nops, flags, Interned, OtherThanReader>>

\* _next_token(streamer) on the streamer of the reader
CallNextToken ==
    /\ reader.calls < MaxCalls
    /\ reader' = [st |-> next_token(reader.st, flags).st, calls |-> reader.calls + 1]
    /\ ret' = [op |-> "_next_token", val |-> next_token(reader.st, flags).val]
    /\ UNCHANGED <<cells, arrays, pylists, nops, flags, Interned, OtherThanReader>>

InitStream ==
    /\ NoAtoms
    /\ objects = <<>>
    /\ nil = NilImported
    /\ \E text \in StreamTexts : reader = SxprStringReader(text)
    /\ file = NoFile
    /\ iterators = <<>>
    /\ threads = NoThreads
    /\ cells = <<>>
    /\ arrays = <<>>
    /\ pylists = <<>>
    /\ nops = 0
    /\ flags = DefaultFlags
    /\ ret = NoRet

NextStream ==
    \/ CallStreamerRead
    \/ CallNextToken

SpecStream == InitStream /\ [][NextStream]_vars

\* the number of characters read() has returned from the streamer st
Consumed(st) == IF st.lookahead_char = "" THEN Len(st.text) ELSE st.index - 1
\* the line breaks among the first k characters of text
Breaks(text, k) == {i \in 1..k : text[i] \in {"\r", "\n"}}
\* <<line, col>> of the character that follows the first k characters of
\* text: lines count from 1, columns from 0, every other character is one
\* column wide
PositionAfter(text, k) ==
    <<1 + Cardinality(Breaks(text, k)),
      k - (IF Breaks(text, k) = {} THEN 0
           ELSE CHOOSE i \in Breaks(text, k) : \A j \in Breaks(text, k) : j <= i)>>

(***************************************************************************)
(* C25: after a call of read() that returned a character, (line, col) of   *)
(* the streamer is the position of that character and (lookahead_line,     *)
(* lookahead_col) the position of the next unread character; lines count   *)
(* from 1, columns from 0, and each CR or LF starts a new line at column 0. *)
(***************************************************************************)
C25_PositionsAfterRead ==
    (ret.op = "streamer.read" /\ ret.val # "") =>
        /\ <<reader.st.line, reader.st.col>>
               = PositionAfter(reader.st.text, Consumed(reader.st) - 1)
        /\ <<reader.st.lookahead_line, reader.st.lookahead_col>>
               = PositionAfter(reader.st.text, Consumed(reader.st))

(***************************************************************************)
(* SpecNumber: one token spelled like a bin, oct, hex, radix or fraction   *)
(* literal is handed to the tokenizer, under every setting of the five     *)
(* flags that enable these literals.                                       *)
(***************************************************************************)
NumberSigns == {<<>>, <<"-">>}
NumberMarks ==
    {<<>>, <<"#", "b">>, <<"#", "o">>, <<"#", "X">>, <<"#", "2", "r">>, <<"#", "1", "6", "R">>}
NumberDigits == {<<"1">>, <<"1", "0">>, <<"7">>, <<"a">>}
NumberTails == {<<>>, <<"/", "0">>, <<"/", "1", "0">>, <<"/", "4">>}
\* the pattern a token matches, "" if it matches none of the five
LiteralKind(s) ==
    IF is_bin(s) THEN "Bin" ELSE IF is_oct(s) THEN "Oct" ELSE IF is_hex(s) THEN "Hex"
    ELSE IF is_radix(s) THEN "Radix" ELSE IF is_fraction(s) THEN "Frac" ELSE ""
NumberTexts ==
    {s \in {sg \o mk \o n \o tl : sg \in NumberSigns, mk \in NumberMarks,
                                  n \in NumberDigits, tl \in NumberTails} :
        LiteralKind(s) # ""}
NumberFlags ==
    {[DefaultFlags EXCEPT !.enableBin = b[1], !.enableOct = b[2], !.enableHex = b[3],
                          !.enableRadix = b[4], !.enableFrac = b[5]] :
        b \in [1..5 -> BOOLEAN]}

\* _sxpr_tokenizer(streamer) on the streamer of the reader
CallTokenizer ==
    /\ reader.calls < MaxCalls
    /\ reader' = [st |-> sxpr_tokenizer(reader.st, flags).st, calls |-> reader.calls + 1]
    /\ ret' = [op |-> "_sxpr_tokenizer", val |-> sxpr_tokenizer(reader.st, flags).val]
    /\ UNCHANGED <<cells, arrays, pylists, nops, flags, Interned, OtherThanReader>>

InitNumber ==
    /\ NoAtoms
    /\ objects = <<>>
    /\ nil = NilImported
    /\ \E text \in NumberTexts : reader = SxprStringReader(text)
    /\ file = NoFile
    /\ iterators = <<>>
    /\ threads = NoThreads
    /\ cells = <<>>
    /\ arrays = <<>>
    /\ pylists = <<>>
    /\ nops = 0
    /\ flags \in NumberFlags
    /\ ret = NoRet

NextNumber == CallTokenizer

SpecNumber == InitNumber /\ [][NextNumber]_vars

\* the flag that enables the literals of a kind
LiteralEnabled(kind, F) ==
    \/ kind = "Bin" /\ F.enableBin
    \/ kind = "Oct" /\ F.enableOct
    \/ kind = "Hex" /\ F.enableHex
    \/ kind = "Radix" /\ F.enableRadix
    \/ kind = "Frac" /\ F.enableFrac
\* the text between "#" and the radix letter of a radix literal u
RadixDigits(u) == SubSeq(u, 2, (IF u[3] \in {"r", "R"} THEN 3 ELSE 4) - 1)
\* the base of a literal of a kind, u being the literal without its sign
LiteralBase(kind, u) ==
    IF kind = "Bin" THEN 2 ELSE IF kind = "Oct" THEN 8 ELSE IF kind = "Hex" THEN 16
    ELSE IF kind = "Radix" THEN BaseVal(RadixDigits(u), 10) ELSE 10
\* the digits of the literal: N, or N/D
LiteralBody(kind, u) ==
    IF kind = "Frac" THEN u
    ELSE IF kind = "Radix" THEN SubSeq(u, Len(RadixDigits(u)) + 3, Len(u))
    ELSE SubSeq(u, 3, Len(u))
Numerator(body) ==
    IF IndexIn(body, "/") = 0 THEN body ELSE SubSeq(body, 1, IndexIn(body, "/") - 1)
Denominator(body) ==
    IF IndexIn(body, "/") = 0 THEN <<"1">> ELSE SubSeq(body, IndexIn(body, "/") + 1, Len(body))
\* w is a numeral of the base
Reads(w, base) ==
    /\ base \in 2..36
    /\ Len(w) >= 1
    /\ \A i \in 1..Len(w) : DigitVal(w[i]) \in 0..(base - 1)
\* val is the ratio n/d as the claim describes it: an Int when d divides n,
\* else a Rational in lowest terms
IsRatioOf(val, n, d) ==
    /\ d # 0
    /\ \/ val.t = "int" /\ val.v * d = n
       \/ /\ val.t = "frac"
          /\ val.w > 1
          /\ val.v * d = n * val.w
          /\ GCD(Abs(val.v), val.w) = 1
\* val is the value of the literal s of a kind with the digits body
IsValueOf(val, s, base, body) ==
    /\ Reads(Numerator(body), base)
    /\ Reads(Denominator(body), base)
    /\ IsRatioOf(val, (IF s[1] = "-" THEN -1 ELSE 1) * BaseVal(Numerator(body), base),
                 BaseVal(Denominator(body), base))
\* the first token of the text has been returned
TokenReturned == ret.op = "_sxpr_tokenizer" /\ reader.calls = 1

(***************************************************************************)
(* C26: for a token that matches the bin, oct, hex, radix or fraction      *)
(* pattern the tokenizer returns, with the matching flag disabled, the      *)
(* Symbol of the token's text, and with it enabled the Int value or, for    *)
(* N/D, the ratio of N and D read in that base: a Rational in lowest terms, *)
(* an Int whenever D divides N, never a Rational with denominator 1.       *)
(***************************************************************************)
C26_LiteralValue ==
    TokenReturned =>
        IF LiteralEnabled(LiteralKind(reader.st.text), flags)
        THEN IsValueOf(ret.val, reader.st.text,
                       LiteralBase(LiteralKind(reader.st.text), StripSign(reader.st.text)),
                       LiteralBody(LiteralKind(reader.st.text), StripSign(reader.st.text)))
        ELSE ret.val = SymbolOf(reader.st.text, flags)

(***************************************************************************)
(* list(x): the values a for loop over x gets, ok being FALSE when the     *)
(* loop is still going after fuel steps.                                   *)
(***************************************************************************)
RECURSIVE list_loop(_, _, _, _)
list_step(H, x, given, fuel) ==
    IF x.stop THEN [ok |-> TRUE, s |-> given]
    ELSE list_loop(H, x.it, Append(given, x.value), fuel - 1)
list_loop(H, it, given, fuel) ==
    IF fuel = 0 THEN [ok |-> FALSE, s |-> given]
    ELSE list_step(H, ConsIterator_next(H, it), given, fuel)
list(H, x) == list_loop(H, [cons |-> x, occurence |-> {}], <<>>, LoopFuel(H))

\* the last distinct cell of the cdr chain of the Cons l1
LastCell(H, l1) == ChainOf(H, l1.v)[Len(ChainOf(H, l1.v))]
\* a Cons whose cdr chain ends in NIL
ProperList(H, x) == consp(x) /\ Terminated(H, x.v) /\ null(Terminal(H, x.v))

(***************************************************************************)
(* C27: nconc(l1, l2) with l1 a Cons returns l1 and changes one field      *)
(* only, the cdr of the last distinct cell of l1's cdr chain, which        *)
(* becomes l2; nconc(a, a) on a proper list a raises nothing and leaves a  *)
(* cyclic, with the len it had, and len, iteration and str of it end.      *)
(***************************************************************************)
C27_NconcFrame ==
    (ret.op = "nconc" /\ consp(ret.l1)) =>
        /\ ret.err = ""
        /\ ret.val = ret.l1
        /\ Heap = [ret.before EXCEPT !.cells[LastCell(ret.before, ret.l1)].cdr = ret.l2]
        /\ (ret.l2 = ret.l1 /\ ProperList(ret.before, ret.l1)) =>
               /\ cdr(Heap, ConsRef(LastCell(Heap, ret.l1))) = ret.l1
               /\ Cons_len(Heap, ret.l1) = Cons_len(ret.before, ret.l1)
               /\ Cons_len(Heap, ret.l1) >= 1
               /\ list(Heap, ret.l1).ok
               /\ Len(list(Heap, ret.l1).s) = Cons_len(Heap, ret.l1)
               /\ Cons_str(Heap, ret.l1, flags).ok

\* nconc(a, a) has made a proper list of two cells cyclic
C27_Witness ==
    /\ ret.op = "nconc"
    /\ ret.l1 = ret.l2
    /\ ProperList(ret.before, ret.l1)
    /\ Len(ChainOf(ret.before, ret.l1.v)) = 2
    /\ cdr(Heap, ConsRef(LastCell(Heap, ret.l1))) = ret.l1
    /\ Heap # ret.before

\* the tokens that were unread when the last read was called
Unread == Pending(ret.before.st, flags)

(***************************************************************************)
(* C28: a read returns the next top-level form whenever the unread text    *)
(* begins with a complete one, whatever follows the form: a lexical error  *)
(* in the text after it (an unterminated string or block comment) is not   *)
(* raised by this read.                                                    *)
(***************************************************************************)
C28_LaterErrorRaisedLater ==
    (ret.op = "read" /\ FormEnd(Unread, 1) > 0) =>
        ~IsException(ret.read) /\ ret.read # None

====
